---- MODULE Spec2Model ----
(***************************************************************************)
(* The production orchestration engine of claudio: the WorkflowState       *)
(* aggregate, the StateManager's persisted copy of it, and the             *)
(* ProductionOrchestratorAgent's operations, cut into the atomic segments  *)
(* that lie between two suspension points (await) of the asyncio code.     *)
(***************************************************************************)
EXTENDS Integers, Sequences, FiniteSets, TLC

\* ---------------------------------------------------------------- bounds
MaxScenes == 3
MaxCalls == 2
MaxSaveFailures == 1
MaxReloads == 1
MaxTasks == 3
MaxConcurrency == 2
MaxSessions == 2
MaxRetries == 3
MaxPlanScenes == 2
MaxTurns == 2
MaxMarks == 4
MaxItems == 3
MaxBatchSize == 2

VARIABLES
    state,          \* the in-memory WorkflowState handed to the orchestrator
    disk,           \* the session's state.json: [exists, content]
    op,             \* the public operation the caller is running
    pc,             \* where that operation is suspended
    saving,         \* the model_dump the operation's own save_state is writing
    tasks,          \* the per-scene coroutines handed to asyncio.gather
    tracker,        \* the stage's ProgressTracker
    gateway_log,    \* the gateway calls made since the current stage began
    concat_input,   \* the lists handed to concatenate_videos_tool by the current operation
    outcome,        \* how the last finished operation ended
    calls_made,     \* operations invoked so far
    save_failures,  \* save_state calls that raised so far
    reloads,        \* process restarts (load_state) so far
    sched,          \* a call of the Task Scheduler (gather_with_concurrency)
    callback,       \* execute_full_production's progress_callback and what it was told
    progress,       \* a ProgressTracker under concurrent mark calls
    store,          \* the StateManager's files of several sessions
    retry,          \* a call of BaseAPIClient._retry_with_backoff
    planner,        \* the planning conversation of create_video_interactive
    batch,          \* a call of batch_process
    tool            \* a call of one of the MCP tool handlers

vars == <<state, disk, op, pc, saving, tasks, tracker, gateway_log,
          concat_input, outcome, calls_made, save_failures, reloads, sched,
          callback, progress, store, retry, planner, batch, tool>>

\* The components modelled on their own, apart from the orchestrator.
component_vars == <<sched, progress, store, retry, planner, batch, tool>>

\* ---------------------------------------------------------------- values
\* Optional[...] fields: None is the empty tuple, a present value a non-empty one.
None == <<>>

\* WorkflowStatus, in declaration order.
WorkflowStatus ==
    <<"planning", "approval", "generating_images", "generating_videos",
      "concatenating", "completed", "failed">>

StatusValues == {WorkflowStatus[k] : k \in 1..Len(WorkflowStatus)}

\* FileManager.get_image_path / get_video_path / get_final_video_path:
\* one fixed location per scene id and kind.
get_image_path(scene_id) == <<"images", scene_id>>
get_video_path(scene_id) == <<"videos", scene_id>>
get_final_video_path == <<"final_video", 0>>

\* A Scene of the plan; its scene_id is its position in the plan.
Scene ==
    [image_generated |-> FALSE, video_generated |-> FALSE,
     image_path |-> None, video_path |-> None]

\* The id lists of ProductionState. No code reads the order of their entries
\* (only "scene_id in list"): images_generated and failed_scenes are kept as
\* their entries with the number of times each occurs; videos_generated keeps
\* its order, the order in which the video tasks completed.
EmptyList == <<>>
Count(list, x) == IF x \in DOMAIN list THEN list[x] ELSE 0
Contains(list, x) == Count(list, x) > 0
ListAppend(list, x) ==
    [y \in (DOMAIN list) \cup {x} |-> IF y = x THEN Count(list, x) + 1 ELSE list[y]]

ProductionState ==
    [images_generated |-> EmptyList, videos_generated |-> <<>>,
     failed_scenes |-> EmptyList]

AssetPaths == [images |-> <<>>, videos |-> <<>>, final_video |-> None]

\* CostEstimate(images_cost=..., videos_cost=..., total_cost=...)
CostEstimate(images_cost, videos_cost, total_cost) ==
    [images_cost |-> images_cost, videos_cost |-> videos_cost,
     total_cost |-> total_cost]

\* WorkflowState(status=..., scene_plan=...) with every other field defaulted.
WorkflowState(status, has_plan, n) ==
    [status |-> status,
     has_plan |-> has_plan,
     scenes |-> [i \in 1..n |-> Scene],
     production_state |-> ProductionState,
     estimated_cost |-> None,
     assets |-> AssetPaths,
     error_message |-> None]

NoSnapshot == [status |-> "none"]
\* How an operation ended: returned (with its value) or raised (with the error
\* text); persisted tells whether the except branch's save was written.
NoOutcome == [kind |-> "none", op |-> "none", error |-> "", value |-> <<>>,
              persisted |-> FALSE]

\* No call of gather_with_concurrency: the orchestrator gathers its tasks itself.
NoSched == [phase |-> "none"]

\* progress_callback=None, the default of execute_full_production.
NoCallback == [given |-> FALSE, messages |-> <<>>]

\* The components not in use.
NoProgress == [phase |-> "none"]
NoStore == [phase |-> "none"]
NoRetry == [phase |-> "none"]
NoPlanner == [phase |-> "none"]
NoBatch == [phase |-> "none"]
NoTool == [phase |-> "none"]

\* ---------------------------------------------------------------- WorkflowState methods
update_status_keeps_status(s, status) == s

update_status(s, status) == [s EXCEPT !.status = status]

mark_failed_keeps_status(s, error_message) ==
    [s EXCEPT !.error_message = <<error_message>>]

mark_failed(s, error_message) ==
    [s EXCEPT !.status = "failed", !.error_message = <<error_message>>]

can_resume_unless_completed(s) == s.status # "completed"

can_resume(s) == s.status \notin {"completed", "failed"}

mark_image_generated(ps, scene_id) ==
    IF Contains(ps.images_generated, scene_id) THEN ps
    ELSE [ps EXCEPT !.images_generated = ListAppend(@, scene_id)]

mark_video_generated(ps, scene_id) ==
    IF \E k \in 1..Len(ps.videos_generated) : ps.videos_generated[k] = scene_id
    THEN ps
    ELSE [ps EXCEPT !.videos_generated = Append(@, scene_id)]

mark_scene_failed_unchecked(ps, scene_id) ==
    [ps EXCEPT !.failed_scenes = ListAppend(@, scene_id)]

mark_scene_failed(ps, scene_id) ==
    IF Contains(ps.failed_scenes, scene_id) THEN ps
    ELSE [ps EXCEPT !.failed_scenes = ListAppend(@, scene_id)]

\* "scene_id in ..." on the list of the kind asked for
is_image_generated(ps, scene_id) == Contains(ps.images_generated, scene_id)
is_video_generated(ps, scene_id) ==
    \E k \in 1..Len(ps.videos_generated) : ps.videos_generated[k] = scene_id
is_scene_failed(ps, scene_id) == Contains(ps.failed_scenes, scene_id)

\* dict[scene_id] = path
DictSet(d, k, v) == [x \in (DOMAIN d) \cup {k} |-> IF x = k THEN v ELSE d[x]]

add_image(assets, scene_id, path) ==
    [assets EXCEPT !.images = DictSet(@, scene_id, path)]

add_video_dropped(assets, scene_id, path) == assets

add_video(assets, scene_id, path) ==
    [assets EXCEPT !.videos = DictSet(@, scene_id, path)]

SceneIds(s) == DOMAIN s.scenes

\* ---------------------------------------------------------------- StateManager
\* save_state writes the model_dump taken when it was called; load_state reads it back.
Saved(snapshot) == [exists |-> TRUE, content |-> snapshot]

\* ---------------------------------------------------------------- orchestrator helpers
NewTracker(total) == [total |-> total, completed |-> 0, failed |-> 0]

tracker_mark_completed(t) == [t EXCEPT !.completed = @ + 1]
tracker_mark_failed_counts_completed(t) == [t EXCEPT !.completed = @ + 1]
tracker_mark_failed(t) == [t EXCEPT !.failed = @ + 1]

NewTask == [pc |-> "ready", success |-> FALSE, snapshot |-> NoSnapshot,
            prev_image_path |-> None]

\* asyncio.gather(*tasks, return_exceptions=True) returns once every task has resolved.
AllResolved_first_completed(ts) == \E i \in DOMAIN ts : ts[i].pc = "done"

AllResolved_or_first_failure(ts) ==
    \/ \A i \in DOMAIN ts : ts[i].pc = "done"
    \/ \E i \in DOMAIN ts : ts[i].pc = "done" /\ ~ts[i].success

AllResolved_never(ts) == FALSE

AllResolved(ts) == \A i \in DOMAIN ts : ts[i].pc = "done"

\* sum(1 for r in results if isinstance(r, dict) and r.get("success"))
Successful(ts) == Cardinality({i \in DOMAIN ts : ts[i].success})

\* img_success == 0 / vid_success == 0
StageFatal_any_failure(ts) == Successful(ts) < Cardinality(DOMAIN ts)

StageFatal_never(ts) == FALSE

StageFatal(ts) == Successful(ts) = 0

\* not scene.image_generated or not scene.image_path
ImageMissing_unchecked(scene) == FALSE

ImageMissing(scene) == ~scene.image_generated \/ scene.image_path = None

\* prev_image_path of generate_videos' dispatch loop
PrevImagePath_own(scenes, i) == IF i > 1 THEN scenes[i].image_path ELSE None

PrevImagePath(scenes, i) == IF i > 1 THEN scenes[i - 1].image_path ELSE None

VideoPaths_completion_order(scenes, k) ==
    [j \in 1..Len(state.production_state.videos_generated) |->
        scenes[state.production_state.videos_generated[j]].video_path]

\* video_paths of concatenate_videos: the plan's scenes in order, those with a path
RECURSIVE VideoPaths(_, _)
VideoPaths(scenes, k) ==
    IF k > Len(scenes) THEN <<>>
    ELSE IF scenes[k].video_path # None
         THEN <<scenes[k].video_path>> \o VideoPaths(scenes, k + 1)
         ELSE VideoPaths(scenes, k + 1)

\* not video_paths
NoVideoPaths_never(video_paths) == FALSE

NoVideoPaths(video_paths) == video_paths = <<>>

\* The texts of execute_full_production's two stage-fatal ValueErrors.
NoImagesError == "No images were generated successfully"
NoVideosError == "No videos were generated successfully"

\* How control leaves an operation, as the next values of
\* <<state, pc, saving, outcome, op>>.
\* An exception: execute_full_production's handler marks the state failed and
\* saves it before re-raising; the stage operations let it through.
Raise(o, s, msg) ==
    IF o = "full"
    THEN [state |-> mark_failed(s, msg), pc |-> "fail_save",
          saving |-> mark_failed(s, msg),
          outcome |-> [NoOutcome EXCEPT !.kind = "raising", !.op = o, !.error = msg],
          op |-> o]
    ELSE [state |-> s, pc |-> "idle", saving |-> NoSnapshot,
          outcome |-> [NoOutcome EXCEPT !.kind = "raised", !.op = o, !.error = msg],
          op |-> "none"]

Return(o, s, value) ==
    [state |-> s, pc |-> "idle", saving |-> NoSnapshot,
     outcome |-> [NoOutcome EXCEPT !.kind = "returned", !.op = o, !.value = value],
     op |-> "none"]

EnterStage_unchecked(o, s, status, at) ==
    [state |-> update_status(s, status), pc |-> at,
     saving |-> update_status(s, status), outcome |-> NoOutcome, op |-> o]

\* The head of a stage operation, up to its first save_state.
EnterStage(o, s, status, at) ==
    IF ~s.has_plan
    THEN Raise(o, s, "No scene plan available")
    ELSE [state |-> update_status(s, status), pc |-> at,
          saving |-> update_status(s, status), outcome |-> NoOutcome, op |-> o]

EnterImages(o, s) == EnterStage(o, s, "generating_images", "img_status_save")
EnterVideos(o, s) == EnterStage(o, s, "generating_videos", "vid_status_save")
EnterConcat(o, s) == EnterStage(o, s, "concatenating", "cat_status_save")

\* if progress_callback: await progress_callback(message) -- ahead of what comes
\* next in execute_full_production (r): a callback that raises takes the
\* operation into the except branch instead.
AfterCallback(given, raises, o, s, r) ==
    IF given /\ o = "full" /\ raises
    THEN Raise(o, s, "progress_callback failed")
    ELSE r

\* What the callback has been told once it was called with message.
Told(cb, o, message) ==
    IF cb.given /\ o = "full"
    THEN [cb EXCEPT !.messages = Append(@, message)]
    ELSE cb

Apply(r) ==
    /\ state' = r.state
    /\ pc' = r.pc
    /\ saving' = r.saving
    /\ outcome' = r.outcome
    /\ op' = r.op

SaveMayFail == save_failures < MaxSaveFailures

\* ---------------------------------------------------------------- initial state
\* ScenePlanningAgent.create_initial_state: APPROVAL with the approved plan;
\* WorkflowState built without a plan: PLANNING, scene_plan None. Nothing saved yet.
Init ==
    /\ \/ \E n \in 1..MaxScenes : state = WorkflowState("approval", TRUE, n)
       \/ state = WorkflowState("planning", FALSE, 0)
    /\ disk = [exists |-> FALSE, content |-> NoSnapshot]
    /\ op = "none"
    /\ pc = "idle"
    /\ saving = NoSnapshot
    /\ tasks = [image |-> <<>>, video |-> <<>>]
    /\ tracker = NewTracker(0)
    /\ gateway_log = {}
    /\ concat_input = <<>>
    /\ outcome = NoOutcome
    /\ calls_made = 0
    /\ save_failures = 0
    /\ reloads = 0
    /\ sched = NoSched
    /\ callback = NoCallback
    /\ progress = NoProgress
    /\ store = NoStore
    /\ retry = NoRetry
    /\ planner = NoPlanner
    /\ batch = NoBatch
    /\ tool = NoTool

\* ---------------------------------------------------------------- the caller
\* A public operation is entered with the state as it is; what the log variables
\* record starts over.
Operations == {"full", "images", "videos", "concat"}

Begin(o) ==
    IF o \in {"full", "images"} THEN EnterImages(o, state)
    ELSE IF o = "videos" THEN EnterVideos(o, state)
    ELSE EnterConcat(o, state)

\* The operation's entry as it runs when a progress callback is given or not.
Invoke_with(o, given) ==
    /\ pc = "idle"
    /\ calls_made' = calls_made + 1
    /\ gateway_log' = {}
    /\ concat_input' = <<>>
    /\ tasks' = [image |-> <<>>, video |-> <<>>]
    /\ tracker' = NewTracker(0)
    /\ \E raises \in BOOLEAN :
           Apply(AfterCallback(given, raises, o, state, Begin(o)))
    /\ UNCHANGED <<disk, save_failures, reloads>>
    /\ UNCHANGED component_vars

Invoke(o) ==
    /\ Invoke_with(o, callback.given)
    /\ callback' = Told([callback EXCEPT !.messages = <<>>], o,
                        "Generating scene end-frame images...")

\* The first operation on the session's state.
execute_full_production == calls_made = 0 /\ Invoke("full")
generate_images == calls_made = 0 /\ Invoke("images")
generate_videos == calls_made = 0 /\ Invoke("videos")
concatenate_videos == calls_made = 0 /\ Invoke("concat")

\* A further operation on the state an earlier one (or a restart) left.
call_again(o) == calls_made >= 1 /\ calls_made < MaxCalls /\ Invoke(o)

\* ---------------------------------------------------------------- image stage
\* generate_images, from its save_state to asyncio.gather: the save ends, the
\* tracker and one task per scene of the plan are created.
generate_images_dispatch ==
    /\ pc = "img_status_save"
    /\ \/ /\ disk' = Saved(saving)
          /\ pc' = "img_gather"
          /\ saving' = NoSnapshot
          /\ tracker' = NewTracker(Len(state.scenes))
          /\ tasks' = [tasks EXCEPT !.image = [i \in SceneIds(state) |-> NewTask]]
          /\ UNCHANGED <<state, op, outcome, save_failures>>
       \/ /\ SaveMayFail
          /\ save_failures' = save_failures + 1
          /\ Apply(Raise(op, state, "save_state failed"))
          /\ UNCHANGED <<disk, tracker, tasks>>
    /\ UNCHANGED <<gateway_log, concat_input, calls_made, reloads>>
    /\ UNCHANGED <<callback, component_vars>>

SetTask(kind, i, t) == tasks' = [tasks EXCEPT ![kind][i] = t]

\* gather starts the tasks in the order they were passed: a task runs its first
\* segment once every task before it has run its own.
Started(ts, i) == \A j \in DOMAIN ts : j < i => ts[j].pc # "ready"

\* _generate_scene_image up to the gateway's answer: generate_image_tool is called.
generate_scene_image_call(i) ==
    /\ tasks.image[i].pc = "ready"
    /\ Started(tasks.image, i)
    /\ SetTask("image", i, [tasks.image[i] EXCEPT !.pc = "calling"])
    /\ gateway_log' = gateway_log \cup
           {[kind |-> "image", scene |-> i, end_image_path |-> None,
             start_image_path |-> None,
             was_done |-> state.scenes[i].image_generated]}
    /\ UNCHANGED <<state, disk, op, pc, saving, tracker, concat_input, outcome,
                   calls_made, save_failures, reloads>>
    /\ UNCHANGED <<callback, component_vars>>

\* The scene and state updates of a successful image result.
ImageRecorded(s, i, path) ==
    [s EXCEPT !.scenes[i].image_generated = TRUE,
              !.scenes[i].image_path = path,
              !.production_state = mark_image_generated(@, i),
              !.assets = add_image(@, i, path)]

\* generate_image_tool answers: a success is recorded and its save_state begins;
\* a failure marks the scene failed and resolves the task.
generate_scene_image_result(i) ==
    /\ tasks.image[i].pc = "calling"
    /\ \/ LET s == ImageRecorded(state, i, get_image_path(i)) IN
          /\ state' = s
          /\ SetTask("image", i, [tasks.image[i] EXCEPT !.pc = "saving", !.snapshot = s])
          /\ UNCHANGED tracker
       \/ /\ state' = [state EXCEPT !.production_state = mark_scene_failed(@, i)]
          /\ tracker' = tracker_mark_failed(tracker)
          /\ SetTask("image", i, [tasks.image[i] EXCEPT !.pc = "done", !.success = FALSE])
    /\ UNCHANGED <<disk, op, pc, saving, gateway_log, concat_input, outcome,
                   calls_made, save_failures, reloads>>
    /\ UNCHANGED <<callback, component_vars>>

\* The task's save_state ends: written, the tracker counts a completion; raised,
\* the except branch marks the scene failed and returns a failure.
generate_scene_image_saved(i) ==
    /\ tasks.image[i].pc = "saving"
    /\ \/ /\ disk' = Saved(tasks.image[i].snapshot)
          /\ tracker' = tracker_mark_completed(tracker)
          /\ SetTask("image", i, [tasks.image[i] EXCEPT
                 !.pc = "done", !.success = TRUE, !.snapshot = NoSnapshot])
          /\ UNCHANGED <<state, save_failures>>
       \/ /\ SaveMayFail
          /\ save_failures' = save_failures + 1
          /\ state' = [state EXCEPT !.production_state = mark_scene_failed(@, i)]
          /\ tracker' = tracker_mark_failed(tracker)
          /\ SetTask("image", i, [tasks.image[i] EXCEPT
                 !.pc = "done", !.success = FALSE, !.snapshot = NoSnapshot])
          /\ UNCHANGED disk
    /\ UNCHANGED <<op, pc, saving, gateway_log, concat_input, outcome,
                   calls_made, reloads>>
    /\ UNCHANGED <<callback, component_vars>>

\* asyncio.gather returns; generate_images counts and returns, and
\* execute_full_production goes on to the video stage or raises.
generate_images_gathered_with(given) ==
    /\ pc = "img_gather"
    /\ AllResolved(tasks.image)
    /\ LET successful == Successful(tasks.image)
           failed == Len(state.scenes) - successful
       IN  IF op = "full"
           THEN IF StageFatal(tasks.image)
                THEN Apply(Raise(op, state, NoImagesError))
                ELSE \E raises \in BOOLEAN :
                         Apply(AfterCallback(given, raises, op, state,
                                             EnterVideos(op, state)))
           ELSE Apply(Return(op, state, <<successful, failed>>))
    /\ UNCHANGED <<disk, tasks, tracker, gateway_log, concat_input,
                   calls_made, save_failures, reloads>>
    /\ UNCHANGED component_vars

generate_images_gathered ==
    /\ generate_images_gathered_with(callback.given)
    /\ callback' = IF StageFatal(tasks.image) THEN callback
                   ELSE Told(callback, op, "Generating video segments...")

\* ---------------------------------------------------------------- video stage
\* generate_videos, from its save_state to asyncio.gather: each scene's task is
\* created with the previous scene's image path as it is at that moment.
generate_videos_dispatch ==
    /\ pc = "vid_status_save"
    /\ \/ /\ disk' = Saved(saving)
          /\ pc' = "vid_gather"
          /\ saving' = NoSnapshot
          /\ tracker' = NewTracker(Len(state.scenes))
          /\ tasks' = [tasks EXCEPT !.video =
                 [i \in SceneIds(state) |->
                    [NewTask EXCEPT !.prev_image_path = PrevImagePath(state.scenes, i)]]]
          /\ UNCHANGED <<state, op, outcome, save_failures>>
       \/ /\ SaveMayFail
          /\ save_failures' = save_failures + 1
          /\ Apply(Raise(op, state, "save_state failed"))
          /\ UNCHANGED <<disk, tracker, tasks>>
    /\ UNCHANGED <<gateway_log, concat_input, calls_made, reloads>>
    /\ UNCHANGED <<callback, component_vars>>

\* _generate_scene_video up to the gateway's answer: without the scene's own image
\* the ValueError is caught (scene marked failed, failure returned); with it
\* generate_video_tool is called.
generate_scene_video_call(i) ==
    /\ tasks.video[i].pc = "ready"
    /\ Started(tasks.video, i)
    /\ IF ImageMissing(state.scenes[i])
       THEN /\ state' = [state EXCEPT !.production_state = mark_scene_failed(@, i)]
            /\ tracker' = tracker_mark_failed(tracker)
            /\ SetTask("video", i, [tasks.video[i] EXCEPT !.pc = "done", !.success = FALSE])
            /\ UNCHANGED gateway_log
       ELSE /\ SetTask("video", i, [tasks.video[i] EXCEPT !.pc = "calling"])
            /\ gateway_log' = gateway_log \cup
                   {[kind |-> "video", scene |-> i,
                     end_image_path |-> state.scenes[i].image_path,
                     start_image_path |-> tasks.video[i].prev_image_path,
                     was_done |-> state.scenes[i].video_generated]}
            /\ UNCHANGED <<state, tracker>>
    /\ UNCHANGED <<disk, op, pc, saving, concat_input, outcome,
                   calls_made, save_failures, reloads>>
    /\ UNCHANGED <<callback, component_vars>>

\* The scene and state updates of a successful video result.
VideoRecorded(s, i, path) ==
    [s EXCEPT !.scenes[i].video_generated = TRUE,
              !.scenes[i].video_path = path,
              !.production_state = mark_video_generated(@, i),
              !.assets = add_video(@, i, path)]

generate_scene_video_result(i) ==
    /\ tasks.video[i].pc = "calling"
    /\ \/ LET s == VideoRecorded(state, i, get_video_path(i)) IN
          /\ state' = s
          /\ SetTask("video", i, [tasks.video[i] EXCEPT !.pc = "saving", !.snapshot = s])
          /\ UNCHANGED tracker
       \/ /\ state' = [state EXCEPT !.production_state = mark_scene_failed(@, i)]
          /\ tracker' = tracker_mark_failed(tracker)
          /\ SetTask("video", i, [tasks.video[i] EXCEPT !.pc = "done", !.success = FALSE])
    /\ UNCHANGED <<disk, op, pc, saving, gateway_log, concat_input, outcome,
                   calls_made, save_failures, reloads>>
    /\ UNCHANGED <<callback, component_vars>>

generate_scene_video_saved(i) ==
    /\ tasks.video[i].pc = "saving"
    /\ \/ /\ disk' = Saved(tasks.video[i].snapshot)
          /\ tracker' = tracker_mark_completed(tracker)
          /\ SetTask("video", i, [tasks.video[i] EXCEPT
                 !.pc = "done", !.success = TRUE, !.snapshot = NoSnapshot])
          /\ UNCHANGED <<state, save_failures>>
       \/ /\ SaveMayFail
          /\ save_failures' = save_failures + 1
          /\ state' = [state EXCEPT !.production_state = mark_scene_failed(@, i)]
          /\ tracker' = tracker_mark_failed(tracker)
          /\ SetTask("video", i, [tasks.video[i] EXCEPT
                 !.pc = "done", !.success = FALSE, !.snapshot = NoSnapshot])
          /\ UNCHANGED disk
    /\ UNCHANGED <<op, pc, saving, gateway_log, concat_input, outcome,
                   calls_made, reloads>>
    /\ UNCHANGED <<callback, component_vars>>

generate_videos_gathered_with(given) ==
    /\ pc = "vid_gather"
    /\ AllResolved(tasks.video)
    /\ LET successful == Successful(tasks.video)
           failed == Len(state.scenes) - successful
       IN  IF op = "full"
           THEN IF StageFatal(tasks.video)
                THEN Apply(Raise(op, state, NoVideosError))
                ELSE \E raises \in BOOLEAN :
                         Apply(AfterCallback(given, raises, op, state,
                                             EnterConcat(op, state)))
           ELSE Apply(Return(op, state, <<successful, failed>>))
    /\ UNCHANGED <<disk, tasks, tracker, gateway_log, concat_input,
                   calls_made, save_failures, reloads>>
    /\ UNCHANGED component_vars

generate_videos_gathered ==
    /\ generate_videos_gathered_with(callback.given)
    /\ callback' = IF StageFatal(tasks.video) THEN callback
                   ELSE Told(callback, op, "Combining video segments...")

\* ---------------------------------------------------------------- concatenation
\* concatenate_videos, from its first save_state to the tool call: the paths are
\* collected in plan order; none at all is a ValueError.
concatenate_videos_call ==
    /\ pc = "cat_status_save"
    /\ \/ /\ disk' = Saved(saving)
          /\ LET video_paths == VideoPaths(state.scenes, 1) IN
             IF NoVideoPaths(video_paths)
             THEN /\ Apply(Raise(op, state, "No videos available for concatenation"))
                  /\ UNCHANGED concat_input
             ELSE /\ pc' = "cat_tool"
                  /\ saving' = NoSnapshot
                  /\ concat_input' = Append(concat_input, video_paths)
                  /\ UNCHANGED <<state, op, outcome>>
          /\ UNCHANGED save_failures
       \/ /\ SaveMayFail
          /\ save_failures' = save_failures + 1
          /\ Apply(Raise(op, state, "save_state failed"))
          /\ UNCHANGED <<disk, concat_input>>
    /\ UNCHANGED <<tasks, tracker, gateway_log, calls_made, reloads>>
    /\ UNCHANGED <<callback, component_vars>>

\* concatenate_videos_tool answers: success sets final_video and COMPLETED and
\* starts the save; failure is returned, and execute_full_production raises on it.
concatenate_videos_result ==
    /\ pc = "cat_tool"
    /\ \/ LET s == update_status(
                     [state EXCEPT !.assets.final_video = get_final_video_path],
                     "completed") IN
          /\ state' = s
          /\ saving' = s
          /\ pc' = "cat_done_save"
          /\ UNCHANGED <<op, outcome>>
       \/ IF op = "full"
          THEN Apply(Raise(op, state, "Concatenation failed"))
          ELSE Apply(Return(op, state, <<FALSE>>))
    /\ UNCHANGED <<disk, tasks, tracker, gateway_log, concat_input,
                   calls_made, save_failures, reloads>>
    /\ UNCHANGED <<callback, component_vars>>

\* The save after COMPLETED ends; concatenate_videos returns its result and
\* execute_full_production returns the state.
concatenate_videos_saved ==
    /\ pc = "cat_done_save"
    /\ \/ /\ disk' = Saved(saving)
          /\ Apply(Return(op, state, <<TRUE>>))
          /\ UNCHANGED save_failures
       \/ /\ SaveMayFail
          /\ save_failures' = save_failures + 1
          /\ Apply(Raise(op, state, "save_state failed"))
          /\ UNCHANGED disk
    /\ UNCHANGED <<tasks, tracker, gateway_log, concat_input, calls_made, reloads>>
    /\ UNCHANGED <<callback, component_vars>>

\* ---------------------------------------------------------------- the except branch
\* execute_full_production's handler after mark_failed: its save_state ends and
\* the exception is re-raised; a failing save raises its own error instead.
execute_full_production_reraise ==
    /\ pc = "fail_save"
    /\ \/ /\ disk' = Saved(saving)
          /\ outcome' = [outcome EXCEPT !.kind = "raised", !.persisted = TRUE]
          /\ UNCHANGED save_failures
       \/ /\ SaveMayFail
          /\ save_failures' = save_failures + 1
          /\ outcome' = [outcome EXCEPT !.kind = "raised", !.error = "save_state failed"]
          /\ UNCHANGED disk
    /\ pc' = "idle"
    /\ op' = "none"
    /\ saving' = NoSnapshot
    /\ UNCHANGED <<state, tasks, tracker, gateway_log, concat_input,
                   calls_made, reloads>>
    /\ UNCHANGED <<callback, component_vars>>

\* ---------------------------------------------------------------- restart
\* The process stops wherever it is and a new one resumes the session with
\* StateManager.load_state: the in-memory state is what was last written.
load_state ==
    /\ disk.exists
    /\ reloads < MaxReloads
    /\ reloads' = reloads + 1
    /\ state' = disk.content
    /\ op' = "none"
    /\ pc' = "idle"
    /\ saving' = NoSnapshot
    /\ tasks' = [image |-> <<>>, video |-> <<>>]
    /\ tracker' = NewTracker(0)
    /\ gateway_log' = {}
    /\ concat_input' = <<>>
    /\ outcome' = NoOutcome
    /\ UNCHANGED <<disk, calls_made, save_failures>>
    /\ UNCHANGED <<callback, component_vars>>

\* ---------------------------------------------------------------- specification
Next ==
    \/ execute_full_production
    \/ generate_images
    \/ generate_videos
    \/ concatenate_videos
    \/ generate_images_dispatch
    \/ \E i \in DOMAIN tasks.image : generate_scene_image_call(i)
    \/ \E i \in DOMAIN tasks.image : generate_scene_image_result(i)
    \/ \E i \in DOMAIN tasks.image : generate_scene_image_saved(i)
    \/ generate_images_gathered
    \/ generate_videos_dispatch
    \/ \E i \in DOMAIN tasks.video : generate_scene_video_call(i)
    \/ \E i \in DOMAIN tasks.video : generate_scene_video_result(i)
    \/ \E i \in DOMAIN tasks.video : generate_scene_video_saved(i)
    \/ generate_videos_gathered
    \/ concatenate_videos_call
    \/ concatenate_videos_result
    \/ concatenate_videos_saved
    \/ execute_full_production_reraise

\* One operation on the state create_initial_state built, as main.py runs it.
Spec == Init /\ [][Next]_vars

\* The session over several operations and process restarts.
NextResume ==
    \/ Next
    \/ \E o \in Operations : call_again(o)
    \/ load_state

SpecResume == Init /\ [][NextResume]_vars

\* ---------------------------------------------------------------- the aggregate alone
\* WorkflowState used directly: a state of any status, with or without a plan,
\* and a caller of its methods update_status, mark_failed and can_resume.
InitAggregate ==
    /\ \/ \E st \in StatusValues, n \in 1..MaxScenes : state = WorkflowState(st, TRUE, n)
       \/ \E st \in StatusValues : state = WorkflowState(st, FALSE, 0)
    /\ disk = [exists |-> FALSE, content |-> NoSnapshot]
    /\ op = "none"
    /\ pc = "idle"
    /\ saving = NoSnapshot
    /\ tasks = [image |-> <<>>, video |-> <<>>]
    /\ tracker = NewTracker(0)
    /\ gateway_log = {}
    /\ concat_input = <<>>
    /\ outcome = NoOutcome
    /\ calls_made = 0
    /\ save_failures = 0
    /\ reloads = 0
    /\ sched = NoSched
    /\ callback = NoCallback
    /\ progress = NoProgress
    /\ store = NoStore
    /\ retry = NoRetry
    /\ planner = NoPlanner
    /\ batch = NoBatch
    /\ tool = NoTool

call_update_status(st) ==
    /\ state' = update_status(state, st)
    /\ UNCHANGED <<disk, op, pc, saving, tasks, tracker, gateway_log, concat_input,
                   outcome, calls_made, save_failures, reloads, callback, component_vars>>

call_mark_failed(msg) ==
    /\ state' = mark_failed(state, msg)
    /\ UNCHANGED <<disk, op, pc, saving, tasks, tracker, gateway_log, concat_input,
                   outcome, calls_made, save_failures, reloads, callback, component_vars>>

\* The answer of can_resume(), with the status it was asked about.
call_can_resume ==
    /\ outcome' = [NoOutcome EXCEPT !.kind = "returned", !.op = "can_resume",
                                    !.value = <<state.status, can_resume(state)>>]
    /\ UNCHANGED <<state, disk, op, pc, saving, tasks, tracker, gateway_log,
                   concat_input, calls_made, save_failures, reloads, callback, component_vars>>

NextAggregate ==
    \/ \E st \in StatusValues : call_update_status(st)
    \/ call_mark_failed("error")
    \/ call_can_resume

SpecAggregate == InitAggregate /\ [][NextAggregate]_vars

\* ProductionState alone: a caller marks scene ids, in any order and repeatedly.
InitMarks ==
    /\ \E n \in 1..MaxScenes : state = WorkflowState("approval", TRUE, n)
    /\ disk = [exists |-> FALSE, content |-> NoSnapshot]
    /\ op = "none"
    /\ pc = "idle"
    /\ saving = NoSnapshot
    /\ tasks = [image |-> <<>>, video |-> <<>>]
    /\ tracker = NewTracker(0)
    /\ gateway_log = {}
    /\ concat_input = <<>>
    /\ outcome = NoOutcome
    /\ calls_made = 0
    /\ save_failures = 0
    /\ reloads = 0
    /\ callback = NoCallback
    /\ sched = NoSched
    /\ progress = NoProgress
    /\ store = NoStore
    /\ retry = NoRetry
    /\ planner = NoPlanner
    /\ batch = NoBatch
    /\ tool = NoTool

call_mark_image_generated(scene_id) ==
    /\ calls_made < MaxMarks
    /\ calls_made' = calls_made + 1
    /\ state' = [state EXCEPT !.production_state = mark_image_generated(@, scene_id)]
    /\ UNCHANGED <<disk, op, pc, saving, tasks, tracker, gateway_log, concat_input,
                   outcome, save_failures, reloads, callback, component_vars>>

call_mark_video_generated(scene_id) ==
    /\ calls_made < MaxMarks
    /\ calls_made' = calls_made + 1
    /\ state' = [state EXCEPT !.production_state = mark_video_generated(@, scene_id)]
    /\ UNCHANGED <<disk, op, pc, saving, tasks, tracker, gateway_log, concat_input,
                   outcome, save_failures, reloads, callback, component_vars>>

call_mark_scene_failed(scene_id) ==
    /\ calls_made < MaxMarks
    /\ calls_made' = calls_made + 1
    /\ state' = [state EXCEPT !.production_state = mark_scene_failed(@, scene_id)]
    /\ UNCHANGED <<disk, op, pc, saving, tasks, tracker, gateway_log, concat_input,
                   outcome, save_failures, reloads, callback, component_vars>>

NextMarks ==
    \/ \E scene_id \in 1..MaxScenes : call_mark_image_generated(scene_id)
    \/ \E scene_id \in 1..MaxScenes : call_mark_video_generated(scene_id)
    \/ \E scene_id \in 1..MaxScenes : call_mark_scene_failed(scene_id)

SpecMarks == InitMarks /\ [][NextMarks]_vars

\* ---------------------------------------------------------------- the Task Scheduler
\* gather_with_concurrency(n, *tasks, return_exceptions): one sem_task per task,
\* all handed to asyncio.gather. sched holds the call: the arguments, the
\* semaphore (value and waiters, first come first served), each sem_task's
\* position and how often its task was begun, and how the call has ended.
workflow_vars == <<state, disk, op, pc, saving, tasks, tracker, gateway_log,
                   concat_input, outcome, calls_made, save_failures, reloads,
                   callback>>

\* A task of the batch: a coroutine that, once awaited, ends with its value or
\* raises; fails tells which.
NewJob(fails) == [pc |-> "ready", fails |-> fails, attempts |-> 0, result |-> None]

\* What task i ends with.
JobResult(i, fails) == IF fails THEN <<"error", i>> ELSE <<"ok", i>>

\* semaphore = asyncio.Semaphore(n), and the gather not yet resolved.
SchedCall(n, fails, return_exceptions) ==
    [phase |-> "running", n |-> n, return_exceptions |-> return_exceptions,
     jobs |-> [i \in DOMAIN fails |-> NewJob(fails[i])],
     value |-> n, waiters |-> <<>>, first_error |-> None, results |-> None]

\* Semaphore.locked(): no permit left, or somebody is already queued.
SemaphoreLocked_never(s) == FALSE

SemaphoreLocked(s) == s.value = 0 \/ s.waiters # <<>>

\* Every way of failing and succeeding for 0 to MaxTasks tasks, every n from 0
\* (asyncio.Semaphore accepts it) to MaxConcurrency, both values of the flag.
InitScheduler ==
    /\ \E k \in 0..MaxTasks :
         \E fails \in [1..k -> BOOLEAN], n \in 0..MaxConcurrency, re \in BOOLEAN :
             sched = SchedCall(n, fails, re)
    /\ state = WorkflowState("planning", FALSE, 0)
    /\ disk = [exists |-> FALSE, content |-> NoSnapshot]
    /\ op = "none"
    /\ pc = "idle"
    /\ saving = NoSnapshot
    /\ tasks = [image |-> <<>>, video |-> <<>>]
    /\ tracker = NewTracker(0)
    /\ gateway_log = {}
    /\ concat_input = <<>>
    /\ outcome = NoOutcome
    /\ calls_made = 0
    /\ save_failures = 0
    /\ reloads = 0
    /\ callback = NoCallback
    /\ progress = NoProgress
    /\ store = NoStore
    /\ retry = NoRetry
    /\ planner = NoPlanner
    /\ batch = NoBatch
    /\ tool = NoTool

\* sem_task i reaches "async with semaphore": with a free permit and nobody
\* queued it takes the permit and begins its task; otherwise it queues.
sem_task_acquire(i) ==
    /\ sched.phase # "none"
    /\ sched.jobs[i].pc = "ready"
    /\ Started(sched.jobs, i)
    /\ IF SemaphoreLocked(sched)
       THEN sched' = [sched EXCEPT !.jobs[i].pc = "waiting",
                                   !.waiters = Append(@, i)]
       ELSE sched' = [sched EXCEPT !.jobs[i].pc = "running",
                                   !.jobs[i].attempts = @ + 1,
                                   !.value = @ - 1]
    /\ UNCHANGED <<workflow_vars, progress, store, retry, planner, batch, tool>>

\* A woken sem_task resumes inside "async with" and begins its task.
sem_task_resume(i) ==
    /\ sched.phase # "none"
    /\ sched.jobs[i].pc = "woken"
    /\ sched' = [sched EXCEPT !.jobs[i].pc = "running", !.jobs[i].attempts = @ + 1]
    /\ UNCHANGED <<workflow_vars, progress, store, retry, planner, batch, tool>>

\* Semaphore.release(): the permit goes to the first waiter, if any, else back.
SemaphoreRelease(s) ==
    IF s.waiters # <<>>
    THEN [s EXCEPT !.jobs[Head(s.waiters)].pc = "woken", !.waiters = Tail(@)]
    ELSE [s EXCEPT !.value = @ + 1]

\* The task of sem_task i ends; "async with" releases the semaphore and the
\* sem_task ends with the task's value or exception. Without return_exceptions
\* the first exception is the one gather will raise.
sem_task_done(i) ==
    /\ sched.phase # "none"
    /\ sched.jobs[i].pc = "running"
    /\ LET s == SemaphoreRelease(sched)
           failed == sched.jobs[i].fails
       IN  sched' = [s EXCEPT
               !.jobs[i].pc = "done",
               !.jobs[i].result = JobResult(i, failed),
               !.first_error =
                   IF failed /\ ~s.return_exceptions /\ s.first_error = None
                   THEN JobResult(i, failed) ELSE @]
    /\ UNCHANGED <<workflow_vars, progress, store, retry, planner, batch, tool>>

\* asyncio.gather resolves and gather_with_concurrency ends with it: raising the
\* first exception as soon as there is one (return_exceptions false), or, every
\* sem_task done, returning their results in the order of the arguments.
gather_resolved ==
    /\ sched.phase = "running"
    /\ IF sched.first_error # None
       THEN sched' = [sched EXCEPT !.phase = "raised"]
       ELSE /\ \A i \in DOMAIN sched.jobs : sched.jobs[i].pc = "done"
            /\ sched' = [sched EXCEPT
                   !.phase = "returned",
                   !.results = [i \in DOMAIN sched.jobs |-> sched.jobs[i].result]]
    /\ UNCHANGED <<workflow_vars, progress, store, retry, planner, batch, tool>>

NextScheduler ==
    \/ \E i \in DOMAIN sched.jobs : sem_task_acquire(i)
    \/ \E i \in DOMAIN sched.jobs : sem_task_resume(i)
    \/ \E i \in DOMAIN sched.jobs : sem_task_done(i)
    \/ gather_resolved

\* The event loop runs whatever is ready, and every task of the batch ends.
SpecScheduler == InitScheduler /\ [][NextScheduler]_vars /\ WF_vars(NextScheduler)

\* ---------------------------------------------------------------- the ProgressTracker
\* ProgressTracker(total) and a batch of parallel tasks, each calling
\* mark_completed or mark_failed once; get_progress and is_complete are read at
\* any moment. progress holds the counters, the asyncio.Lock (its holder and its
\* waiters, first come first served), each call's position and the last answers
\* of the two reads.
NewProgress(total, kinds) ==
    [phase |-> "running", total |-> total, completed |-> 0, failed |-> 0,
     lock |-> 0, waiters |-> <<>>,
     calls |-> [c \in DOMAIN kinds |-> [kind |-> kinds[c], pc |-> "ready"]],
     snapshot |-> None, complete |-> None]

\* remaining = self.total - self.completed - self.failed
get_progress(t) == <<t.completed, t.failed, t.total - t.completed - t.failed>>

\* (self.completed + self.failed) == self.total
is_complete(t) == (t.completed + t.failed) = t.total

InitTracker ==
    /\ \E total \in 0..MaxTasks, k \in 0..MaxTasks :
         \E kinds \in [1..k -> {"completed", "failed"}] :
             progress = NewProgress(total, kinds)
    /\ state = WorkflowState("planning", FALSE, 0)
    /\ disk = [exists |-> FALSE, content |-> NoSnapshot]
    /\ op = "none"
    /\ pc = "idle"
    /\ saving = NoSnapshot
    /\ tasks = [image |-> <<>>, video |-> <<>>]
    /\ tracker = NewTracker(0)
    /\ gateway_log = {}
    /\ concat_input = <<>>
    /\ outcome = NoOutcome
    /\ calls_made = 0
    /\ save_failures = 0
    /\ reloads = 0
    /\ callback = NoCallback
    /\ sched = NoSched
    /\ store = NoStore
    /\ retry = NoRetry
    /\ planner = NoPlanner
    /\ batch = NoBatch
    /\ tool = NoTool

\* "async with self._lock" is entered: a free lock nobody waits for is taken at
\* once, otherwise the call queues.
mark_acquire(c) ==
    /\ progress.calls[c].pc = "ready"
    /\ IF progress.lock = 0 /\ progress.waiters = <<>>
       THEN progress' = [progress EXCEPT !.lock = c, !.calls[c].pc = "locked"]
       ELSE progress' = [progress EXCEPT !.waiters = Append(@, c),
                                         !.calls[c].pc = "waiting"]
    /\ UNCHANGED <<workflow_vars, sched, store, retry, planner, batch, tool>>

\* self.completed += 1 / self.failed += 1, holding the lock.
mark_increment(c) ==
    /\ progress.calls[c].pc = "locked"
    /\ progress' =
           [(IF progress.calls[c].kind = "completed"
             THEN tracker_mark_completed(progress)
             ELSE tracker_mark_failed(progress))
            EXCEPT !.calls[c].pc = "counted"]
    /\ UNCHANGED <<workflow_vars, sched, store, retry, planner, batch, tool>>

\* "async with" is left: the lock goes to the first waiter, if any.
mark_release(c) ==
    /\ progress.calls[c].pc = "counted"
    /\ progress' =
           IF progress.waiters = <<>>
           THEN [progress EXCEPT !.lock = 0, !.calls[c].pc = "done"]
           ELSE [progress EXCEPT !.lock = Head(progress.waiters),
                                 !.waiters = Tail(@),
                                 !.calls[Head(progress.waiters)].pc = "locked",
                                 !.calls[c].pc = "done"]
    /\ UNCHANGED <<workflow_vars, sched, store, retry, planner, batch, tool>>

\* The two reads, which take no lock; the answer of is_complete is kept with the
\* counters it was computed from.
call_get_progress ==
    /\ progress.phase = "running"
    /\ progress' = [progress EXCEPT !.snapshot = get_progress(progress)]
    /\ UNCHANGED <<workflow_vars, sched, store, retry, planner, batch, tool>>

call_is_complete ==
    /\ progress.phase = "running"
    /\ progress' = [progress EXCEPT
           !.complete = <<progress.completed, progress.failed, is_complete(progress)>>]
    /\ UNCHANGED <<workflow_vars, sched, store, retry, planner, batch, tool>>

NextTracker ==
    \/ \E c \in DOMAIN progress.calls : mark_acquire(c)
    \/ \E c \in DOMAIN progress.calls : mark_increment(c)
    \/ \E c \in DOMAIN progress.calls : mark_release(c)
    \/ call_get_progress
    \/ call_is_complete

SpecTracker == InitTracker /\ [][NextTracker]_vars

\* ---------------------------------------------------------------- the State Store
\* StateManager over the files of several sessions. A session id is the name of
\* one directory under the workspace's sessions directory; the ids
\* 1..MaxSessions stand for
\* such names in their sorted order. store holds each session's state.json
\* (files), the session directories that exist (dirs), what was saved and not
\* deleted since (saved) and the last call (last): its return value and whether
\* the session had a saved state when it was made (had).
NoFile == [json |-> "absent"]
Absent == [session_id |-> 0]
NoLast == [op |-> "none", id |-> 0, had |-> FALSE, result |-> None]

SessionIds == 1..MaxSessions

\* JSON values.
JNull == [json |-> "null"]
JStr(v) == [json |-> "string", v |-> v]
JBool(v) == [json |-> "boolean", v |-> v]
JNum(v) == [json |-> "number", v |-> v]
JArr(v) == [json |-> "array", v |-> v]
JObj(v) == [json |-> "object", v |-> v]

\* A datetime is <<seconds, microseconds>>. datetime.isoformat leaves the
\* fraction out when it is zero; the parser reads both forms.
isoformat_seconds(d) == <<"T", d[1]>>

isoformat(d) == IF d[2] = 0 THEN <<"T", d[1]>> ELSE <<"T", d[1], ".", d[2]>>

fromisoformat(x) == IF Len(x) = 2 THEN <<x[2], 0>> ELSE <<x[2], x[4]>>

\* Optional[str]: None is written as null.
DumpOptional(o) == IF o = None THEN JNull ELSE JStr(o[1])
LoadOptional(j) == IF j = JNull THEN None ELSE <<j.v>>

DumpScene(sc) ==
    JObj([image_generated |-> JBool(sc.image_generated),
          video_generated |-> JBool(sc.video_generated),
          image_path |-> DumpOptional(sc.image_path),
          video_path |-> DumpOptional(sc.video_path)])
LoadScene(j) ==
    [image_generated |-> j.v.image_generated.v,
     video_generated |-> j.v.video_generated.v,
     image_path |-> LoadOptional(j.v.image_path),
     video_path |-> LoadOptional(j.v.video_path)]

DumpCost(o) ==
    IF o = None THEN JNull
    ELSE JObj([images_cost |-> JNum(o[1].images_cost),
               videos_cost |-> JNum(o[1].videos_cost),
               total_cost |-> JNum(o[1].total_cost)])
LoadCost(j) ==
    IF j = JNull THEN None
    ELSE <<CostEstimate(j.v.images_cost.v, j.v.videos_cost.v, j.v.total_cost.v)>>

\* state.model_dump(mode="json"): enumeration members become their values,
\* datetimes ISO strings, nested models objects, None null.
model_dump(s) ==
    JObj([session_id |-> JStr(s.session_id),
          status |-> JStr(s.status),
          created_at |-> JStr(isoformat(s.created_at)),
          updated_at |-> JStr(isoformat(s.updated_at)),
          scene_plan |->
              IF s.has_plan
              THEN JObj([scenes |-> JArr([i \in DOMAIN s.scenes |-> DumpScene(s.scenes[i])])])
              ELSE JNull,
          estimated_cost |-> DumpCost(s.estimated_cost),
          production_state |->
              JObj([images_generated |-> JArr(s.production_state.images_generated),
                    videos_generated |-> JArr(s.production_state.videos_generated),
                    failed_scenes |-> JArr(s.production_state.failed_scenes)]),
          assets |->
              JObj([images |-> JObj(s.assets.images),
                    videos |-> JObj(s.assets.videos),
                    final_video |-> DumpOptional(s.assets.final_video)]),
          error_message |-> DumpOptional(s.error_message)])

\* WorkflowState(**state_dict): the fields are validated and converted back; a
\* status that is no member's value is a ValidationError.
ValidationError == [error |-> "ValidationError"]

model_validate(j) ==
    IF j.v.status.v \notin StatusValues THEN ValidationError
    ELSE <<[session_id |-> j.v.session_id.v,
            status |-> j.v.status.v,
            created_at |-> fromisoformat(j.v.created_at.v),
            updated_at |-> fromisoformat(j.v.updated_at.v),
            has_plan |-> j.v.scene_plan # JNull,
            scenes |->
                IF j.v.scene_plan = JNull THEN <<>>
                ELSE [i \in DOMAIN j.v.scene_plan.v.scenes.v |->
                         LoadScene(j.v.scene_plan.v.scenes.v[i])],
            estimated_cost |-> LoadCost(j.v.estimated_cost),
            production_state |->
                [images_generated |-> j.v.production_state.v.images_generated.v,
                 videos_generated |-> j.v.production_state.v.videos_generated.v,
                 failed_scenes |-> j.v.production_state.v.failed_scenes.v],
            assets |->
                [images |-> j.v.assets.v.images.v,
                 videos |-> j.v.assets.v.videos.v,
                 final_video |-> LoadOptional(j.v.assets.v.final_video)],
            error_message |-> LoadOptional(j.v.error_message)]>>

\* The states handed to save_state: a session at four moments of its life, built
\* with the aggregate's own methods.
Stamped(s, session_id, created_at, updated_at) ==
    [session_id |-> session_id, created_at |-> created_at,
     updated_at |-> updated_at] @@ s

PlanningState == WorkflowState("planning", FALSE, 0)
ApprovedState ==
    [WorkflowState("approval", TRUE, 2) EXCEPT
        !.estimated_cost = <<CostEstimate(2, 8, 10)>>]
HalfDoneState ==
    [update_status(ApprovedState, "generating_videos") EXCEPT
        !.scenes[1] = [image_generated |-> TRUE, video_generated |-> FALSE,
                       image_path |-> <<get_image_path(1)>>, video_path |-> None],
        !.production_state =
            mark_scene_failed(mark_image_generated(ProductionState, 1), 2),
        !.assets = add_image(AssetPaths, 1, get_image_path(1))]
FailedState == mark_failed(HalfDoneState, "No videos were generated successfully")

StoreStates(session_id) ==
    { Stamped(PlanningState, session_id, <<1, 0>>, <<1, 0>>),
      Stamped(ApprovedState, session_id, <<1, 7>>, <<2, 0>>),
      Stamped(HalfDoneState, session_id, <<1, 7>>, <<3, 5>>),
      Stamped(FailedState, session_id, <<1, 7>>, <<4, 9>>) }

\* sorted(sessions)
RECURSIVE Insert(_, _)
Insert(sorted_seq, x) ==
    IF sorted_seq = <<>> THEN <<x>>
    ELSE IF x <= Head(sorted_seq) THEN <<x>> \o sorted_seq
    ELSE <<Head(sorted_seq)>> \o Insert(Tail(sorted_seq), x)
RECURSIVE sorted(_)
sorted(seq) == IF seq = <<>> THEN <<>> ELSE Insert(sorted(Tail(seq)), Head(seq))

\* sessions_dir.iterdir(): the directories in an order the file system chooses.
Iterdir(dirs) ==
    {f \in [1..Cardinality(dirs) -> dirs] :
        \A a, b \in 1..Cardinality(dirs) : a # b => f[a] # f[b]}

\* "if state_file.exists(): sessions.append(session_dir.name)"
HasStateFile_any(st, id) == TRUE

HasStateFile(st, id) == st.files[id] # NoFile

RECURSIVE Select(_, _)
Select(st, listing) ==
    IF listing = <<>> THEN <<>>
    ELSE (IF HasStateFile(st, Head(listing)) THEN <<Head(listing)>> ELSE <<>>)
             \o Select(st, Tail(listing))

\* get_session_dir: the session's directory is created by every path lookup.
get_session_dir(st, id) == [st EXCEPT !.dirs = @ \cup {id}]

InitStore ==
    /\ store = [phase |-> "running",
                files |-> [id \in SessionIds |-> NoFile],
                dirs |-> {},
                saved |-> [id \in SessionIds |-> Absent],
                last |-> NoLast]
    /\ state = WorkflowState("planning", FALSE, 0)
    /\ disk = [exists |-> FALSE, content |-> NoSnapshot]
    /\ op = "none"
    /\ pc = "idle"
    /\ saving = NoSnapshot
    /\ tasks = [image |-> <<>>, video |-> <<>>]
    /\ tracker = NewTracker(0)
    /\ gateway_log = {}
    /\ concat_input = <<>>
    /\ outcome = NoOutcome
    /\ calls_made = 0
    /\ save_failures = 0
    /\ reloads = 0
    /\ callback = NoCallback
    /\ sched = NoSched
    /\ progress = NoProgress
    /\ retry = NoRetry
    /\ planner = NoPlanner
    /\ batch = NoBatch
    /\ tool = NoTool

StateManager_save_state(s) ==
    /\ store.phase = "running"
    /\ store' = [get_session_dir(store, s.session_id) EXCEPT
                    !.files[s.session_id] = model_dump(s),
                    !.saved[s.session_id] = s,
                    !.last = [op |-> "save", id |-> s.session_id,
                              had |-> store.saved[s.session_id] # Absent,
                              result |-> None]]
    /\ UNCHANGED <<workflow_vars, sched, progress, retry, planner, batch, tool>>

StateManager_load_state(session_id) ==
    /\ store.phase = "running"
    /\ store' = [get_session_dir(store, session_id) EXCEPT
                    !.last = [op |-> "load", id |-> session_id,
                              had |-> store.saved[session_id] # Absent,
                              result |-> IF store.files[session_id] = NoFile
                                         THEN None
                                         ELSE model_validate(store.files[session_id])]]
    /\ UNCHANGED <<workflow_vars, sched, progress, retry, planner, batch, tool>>

StateManager_state_exists(session_id) ==
    /\ store.phase = "running"
    /\ store' = [get_session_dir(store, session_id) EXCEPT
                    !.last = [op |-> "exists", id |-> session_id,
                              had |-> store.saved[session_id] # Absent,
                              result |-> store.files[session_id] # NoFile]]
    /\ UNCHANGED <<workflow_vars, sched, progress, retry, planner, batch, tool>>

StateManager_delete_state(session_id) ==
    /\ store.phase = "running"
    /\ store' =
           IF store.files[session_id] = NoFile
           THEN [get_session_dir(store, session_id) EXCEPT
                    !.last = [op |-> "delete", id |-> session_id,
                              had |-> store.saved[session_id] # Absent,
                              result |-> FALSE]]
           ELSE [get_session_dir(store, session_id) EXCEPT
                    !.files[session_id] = NoFile,
                    !.saved[session_id] = Absent,
                    !.last = [op |-> "delete", id |-> session_id,
                              had |-> store.saved[session_id] # Absent,
                              result |-> TRUE]]
    /\ UNCHANGED <<workflow_vars, sched, progress, retry, planner, batch, tool>>

StateManager_list_sessions ==
    /\ store.phase = "running"
    /\ \E listing \in Iterdir(store.dirs) :
           store' = [store EXCEPT
                        !.last = [op |-> "list", id |-> 0, had |-> FALSE,
                                  result |-> IF store.dirs = {} THEN <<>>
                                             ELSE sorted(Select(store, listing))]]
    /\ UNCHANGED <<workflow_vars, sched, progress, retry, planner, batch, tool>>

NextStore ==
    \/ \E id \in SessionIds : \E s \in StoreStates(id) : StateManager_save_state(s)
    \/ \E id \in SessionIds : StateManager_load_state(id)
    \/ \E id \in SessionIds : StateManager_state_exists(id)
    \/ \E id \in SessionIds : StateManager_delete_state(id)
    \/ StateManager_list_sessions

SpecStore == InitStore /\ [][NextStore]_vars

\* ---------------------------------------------------------------- the gateway's retry loop
\* BaseAPIClient._retry_with_backoff(func) in its two implementations: the one
\* of the claudio package, which classifies an exception by its httpx class and
\* status code, and the one of src/api_clients, which classifies it by the
\* substrings of str(e). An error is its exception class, its HTTP status (0
\* when it has none) and the markers its text contains.
Implementations == {"claudio.api_clients", "api_clients"}

GatewayError(cls, status, text) == [cls |-> cls, status |-> status, text |-> text]

BadRequest == GatewayError("HTTPStatusError", 400, {"400"})
NotFound == GatewayError("HTTPStatusError", 404, {"404"})
RequestTimeout == GatewayError("HTTPStatusError", 408, {"timeout"})
RateLimited == GatewayError("HTTPStatusError", 429, {"429", "rate limit"})
InternalError == GatewayError("HTTPStatusError", 500, {"500"})
BadGateway == GatewayError("HTTPStatusError", 502, {})
ReadTimeout == GatewayError("TimeoutException", 0, {"timeout"})
ConnectError == GatewayError("NetworkError", 0, {"network"})
\* the SDK's own exception for a 503, which is no httpx exception
SdkUnavailable == GatewayError("ServiceUnavailable", 503, {"503"})

GatewayErrors ==
    {BadRequest, NotFound, RequestTimeout, RateLimited, InternalError,
     BadGateway, ReadTimeout, ConnectError, SdkUnavailable}

Ok == [cls |-> "none", status |-> 200, text |-> {}]

\* claudio/api_clients/base_client.py: what the except clauses do with e.
\* "raise" ends the call with e, "retry" goes on to the attempt < max_retries - 1 test.
ClassifyByClass(e) ==
    IF e.cls = "HTTPStatusError"
    THEN IF 400 <= e.status /\ e.status < 500 /\ e.status # 429
         THEN "raise" ELSE "retry"
    ELSE IF e.cls \in {"TimeoutException", "NetworkError"} THEN "retry"
    ELSE "raise"

\* api_clients/base_client.py: should_retry and the client-error test on str(e).
should_retry(e) ==
    e.text \cap {"429", "rate limit", "500", "503", "timeout", "network"} # {}

ClassifyByText(e) ==
    IF ~should_retry(e) /\ e.text \cap {"400", "401", "403", "404"} # {}
    THEN "raise"
    ELSE IF should_retry(e) THEN "retry" ELSE "raise"

Classify(impl, e) ==
    IF impl = "claudio.api_clients" THEN ClassifyByClass(e) ELSE ClassifyByText(e)

NewRetry(impl, max_retries) ==
    [phase |-> "running", impl |-> impl, max_retries |-> max_retries,
     attempt |-> 0, failures |-> <<>>, waits |-> <<>>, pc |-> "call",
     result |-> None]

InitRetry ==
    /\ \E impl \in Implementations, max_retries \in 0..MaxRetries :
           retry = NewRetry(impl, max_retries)
    /\ state = WorkflowState("planning", FALSE, 0)
    /\ disk = [exists |-> FALSE, content |-> NoSnapshot]
    /\ op = "none"
    /\ pc = "idle"
    /\ saving = NoSnapshot
    /\ tasks = [image |-> <<>>, video |-> <<>>]
    /\ tracker = NewTracker(0)
    /\ gateway_log = {}
    /\ concat_input = <<>>
    /\ outcome = NoOutcome
    /\ calls_made = 0
    /\ save_failures = 0
    /\ reloads = 0
    /\ callback = NoCallback
    /\ sched = NoSched
    /\ progress = NoProgress
    /\ store = NoStore
    /\ planner = NoPlanner
    /\ batch = NoBatch
    /\ tool = NoTool

\* One pass of "for attempt in range(self.max_retries)": func is awaited and
\* returns or raises e.
retry_attempt ==
    /\ retry.phase = "running"
    /\ retry.pc = "call"
    /\ retry.attempt < retry.max_retries
    /\ \E e \in GatewayErrors \cup {Ok} :
           retry' =
               IF e = Ok
               THEN [retry EXCEPT !.pc = "done",
                                  !.result = [kind |-> "returned", error |-> None]]
               ELSE IF Classify(retry.impl, e) = "retry"
                       /\ retry.attempt < retry.max_retries - 1
               THEN [retry EXCEPT !.failures = Append(@, e),
                                  !.waits = Append(@, 2 ^ retry.attempt),
                                  !.pc = "sleeping"]
               ELSE [retry EXCEPT !.failures = Append(@, e),
                                  !.pc = "done",
                                  !.result = [kind |-> "raised", error |-> <<e>>]]
    /\ UNCHANGED <<workflow_vars, sched, progress, store, planner, batch, tool>>

\* asyncio.sleep(wait_time) returns: the loop goes to the next attempt.
retry_wake ==
    /\ retry.phase = "running"
    /\ retry.pc = "sleeping"
    /\ retry' = [retry EXCEPT !.attempt = @ + 1, !.pc = "call"]
    /\ UNCHANGED <<workflow_vars, sched, progress, store, planner, batch, tool>>

\* The loop ends without a return or a raise, which an empty range does:
\* "if last_exception: raise last_exception" / RuntimeError.
retry_exhausted ==
    /\ retry.phase = "running"
    /\ retry.pc = "call"
    /\ retry.attempt >= retry.max_retries
    /\ retry' =
           [retry EXCEPT
               !.pc = "done",
               !.result =
                   IF retry.failures # <<>>
                   THEN [kind |-> "raised",
                         error |-> <<retry.failures[Len(retry.failures)]>>]
                   ELSE [kind |-> "raised",
                         error |-> <<"RuntimeError: Retry failed unexpectedly">>]]
    /\ UNCHANGED <<workflow_vars, sched, progress, store, planner, batch, tool>>

NextRetry ==
    \/ retry_attempt
    \/ retry_wake
    \/ retry_exhausted

SpecRetry == InitRetry /\ [][NextRetry]_vars

\* ---------------------------------------------------------------- planning to production
\* create_video_interactive: the planner proposes plans in a conversation; a
\* complete proposal is validated, a valid one is put to the user, and an
\* approved one becomes the initial WorkflowState handed to generate_video.
\* Durations are in tenths of a second; a prompt is "" or a text.
Tolerance == 5
DurationChoices == {40, 60}
TotalChoices == {45, 46, 100, 105, 106}
MaxSceneDurations == {50, 80}
Prompts == {"", "prompt"}

PlanScene(duration, video_prompt, end_image_prompt) ==
    [duration |-> duration, video_prompt |-> video_prompt,
     end_image_prompt |-> end_image_prompt]

PlanScenes == [duration : DurationChoices, video_prompt : Prompts,
               end_image_prompt : Prompts]

\* ScenePlan(total_duration=..., scenes=[...]) with at least one scene.
ScenePlans ==
    UNION {[total_duration : TotalChoices, scenes : [1..n -> PlanScenes]] :
              n \in 1..MaxPlanScenes}

RECURSIVE SumDurations(_)
SumDurations(scenes) ==
    IF scenes = <<>> THEN 0
    ELSE Head(scenes).duration + SumDurations(Tail(scenes))

\* abs(calculated_duration - scene_plan.total_duration) > 0.5
DurationMismatch_one_sided(calculated_duration, total_duration) ==
    calculated_duration - total_duration > Tolerance

DurationMismatch(calculated_duration, total_duration) ==
    (IF calculated_duration >= total_duration
     THEN calculated_duration - total_duration
     ELSE total_duration - calculated_duration) > Tolerance

\* The loop over the scenes: the first finding of the first scene at fault.
RECURSIVE CheckScenes(_, _, _)
CheckScenes(scenes, scene_id, max_duration) ==
    IF scene_id > Len(scenes) THEN None
    ELSE IF scenes[scene_id].duration > max_duration
         THEN <<"duration exceeds maximum", scene_id>>
    ELSE IF scenes[scene_id].video_prompt = ""
         THEN <<"missing video prompt", scene_id>>
    ELSE IF scenes[scene_id].end_image_prompt = ""
         THEN <<"missing end image prompt", scene_id>>
    ELSE CheckScenes(scenes, scene_id + 1, max_duration)

\* validate_scene_plan: (is_valid, error_message)
validate_scene_plan(scene_plan, max_duration) ==
    IF CheckScenes(scene_plan.scenes, 1, max_duration) # None
    THEN <<FALSE, CheckScenes(scene_plan.scenes, 1, max_duration)>>
    ELSE IF DurationMismatch(SumDurations(scene_plan.scenes), scene_plan.total_duration)
         THEN <<FALSE, <<"durations don't match total", 0>>>>
    ELSE <<TRUE, None>>

\* create_initial_state: WorkflowState(status=APPROVAL, scene_plan=scene_plan)
create_initial_state(scene_plan) ==
    WorkflowState("approval", TRUE, Len(scene_plan.scenes))

NewPlanner(max_duration) ==
    [phase |-> "running", max_scene_duration |-> max_duration, pc |-> "plan",
     turns |-> 0, scene_plan |-> None, plan_check |-> None, rejections |-> 0,
     created |-> None, producing |-> None]

InitPlanner ==
    /\ \E max_duration \in MaxSceneDurations : planner = NewPlanner(max_duration)
    /\ state = WorkflowState("planning", FALSE, 0)
    /\ disk = [exists |-> FALSE, content |-> NoSnapshot]
    /\ op = "none"
    /\ pc = "idle"
    /\ saving = NoSnapshot
    /\ tasks = [image |-> <<>>, video |-> <<>>]
    /\ tracker = NewTracker(0)
    /\ gateway_log = {}
    /\ concat_input = <<>>
    /\ outcome = NoOutcome
    /\ calls_made = 0
    /\ save_failures = 0
    /\ reloads = 0
    /\ callback = NoCallback
    /\ sched = NoSched
    /\ progress = NoProgress
    /\ store = NoStore
    /\ retry = NoRetry
    /\ batch = NoBatch
    /\ tool = NoTool

\* planner.plan_video answers with requirements and a plan, or without them
\* (the conversation then goes on with the user's next input).
plan_video ==
    /\ planner.phase = "running"
    /\ planner.pc = "plan"
    /\ planner.turns < MaxTurns
    /\ \/ \E scene_plan \in ScenePlans :
              planner' = [planner EXCEPT !.turns = @ + 1,
                                         !.scene_plan = <<scene_plan>>,
                                         !.plan_check = None,
                                         !.pc = "validate"]
       \/ planner' = [planner EXCEPT !.turns = @ + 1, !.scene_plan = None,
                                     !.plan_check = None]
    /\ UNCHANGED <<workflow_vars, sched, progress, store, retry, batch, tool>>

\* "valid, error = planner.validate_scene_plan(scene_plan)": an invalid plan is
\* reported to the user; a valid one is put to the user for approval.
validate_plan ==
    /\ planner.phase = "running"
    /\ planner.pc = "validate"
    /\ LET plan_check == validate_scene_plan(planner.scene_plan[1],
                                          planner.max_scene_duration)
       IN planner' =
              IF plan_check[1]
              THEN [planner EXCEPT !.plan_check = <<plan_check>>, !.pc = "approval"]
              ELSE [planner EXCEPT !.plan_check = <<plan_check>>, !.pc = "rejected",
                                   !.rejections = @ + 1]
    /\ UNCHANGED <<workflow_vars, sched, progress, store, retry, batch, tool>>

\* "Approve this plan? (yes/edit/no)"
ask_approval ==
    /\ planner.phase = "running"
    /\ planner.pc = "approval"
    /\ \E approval \in {"yes", "edit", "no"} :
           planner' =
               IF approval = "yes"
               THEN [planner EXCEPT
                        !.created = <<create_initial_state(planner.scene_plan[1])>>,
                        !.pc = "created"]
               ELSE IF approval = "edit"
               THEN [planner EXCEPT !.pc = "edit"]
               ELSE [planner EXCEPT !.pc = "exit"]
    /\ UNCHANGED <<workflow_vars, sched, progress, store, retry, batch, tool>>

\* The user answers a rejected or a to-be-edited proposal; the answer joins the
\* conversation and the loop continues with a new call of plan_video.
user_responds ==
    /\ planner.phase = "running"
    /\ planner.pc \in {"rejected", "edit"}
    /\ planner' = [planner EXCEPT !.pc = "plan", !.scene_plan = None,
                                  !.plan_check = None]
    /\ UNCHANGED <<workflow_vars, sched, progress, store, retry, batch, tool>>

\* "return await generate_video(state)": production, and with it the first
\* gateway call, starts here and nowhere else.
generate_video ==
    /\ planner.phase = "running"
    /\ planner.pc = "created"
    /\ planner' = [planner EXCEPT !.producing = planner.scene_plan, !.pc = "production"]
    /\ UNCHANGED <<workflow_vars, sched, progress, store, retry, batch, tool>>

NextPlanner ==
    \/ plan_video
    \/ validate_plan
    \/ ask_approval
    \/ user_responds
    \/ generate_video

SpecPlanner == InitPlanner /\ [][NextPlanner]_vars

\* ---------------------------------------------------------------- main.py: estimate, then produce
\* generate_video(state): estimate_cost, then execute_full_production with or
\* without a progress callback.
\* config.nano_banana_cost_per_image and config.veo_cost_per_second, in cents.
CostPerImage == 10
CostPerSecond == 40

\* scene_plan.total_duration; every scene of the model lasts the maximum of 8s.
TotalDuration(s) == 8 * Len(s.scenes)

\* estimate_cost_tool(num_images, total_video_duration) when it succeeds.
estimate_cost_tool(num_images, total_video_duration) ==
    CostEstimate(num_images * CostPerImage,
                 total_video_duration * CostPerSecond,
                 num_images * CostPerImage + total_video_duration * CostPerSecond)

\* "if not state.scene_plan"
MissingPlan_never(s) == FALSE

MissingPlan(s) == ~s.has_plan

InitMain ==
    /\ \/ \E n \in 1..MaxScenes : state = WorkflowState("approval", TRUE, n)
       \/ state = WorkflowState("planning", FALSE, 0)
    /\ \E given \in BOOLEAN : callback = [given |-> given, messages |-> <<>>]
    /\ disk = [exists |-> FALSE, content |-> NoSnapshot]
    /\ op = "none"
    /\ pc = "idle"
    /\ saving = NoSnapshot
    /\ tasks = [image |-> <<>>, video |-> <<>>]
    /\ tracker = NewTracker(0)
    /\ gateway_log = {}
    /\ concat_input = <<>>
    /\ outcome = NoOutcome
    /\ calls_made = 0
    /\ save_failures = 0
    /\ reloads = 0
    /\ sched = NoSched
    /\ progress = NoProgress
    /\ store = NoStore
    /\ retry = NoRetry
    /\ planner = NoPlanner
    /\ batch = NoBatch
    /\ tool = NoTool

\* estimate_cost up to its await of estimate_cost_tool: without a plan it raises.
estimate_cost ==
    /\ pc = "idle"
    /\ calls_made = 0
    /\ outcome.op # "estimate"
    /\ IF MissingPlan(state)
       THEN Apply(Raise("estimate", state,
                        "No scene plan available for cost estimation"))
       ELSE /\ pc' = "est_tool"
            /\ op' = "estimate"
            /\ outcome' = NoOutcome
            /\ UNCHANGED <<state, saving>>
    /\ UNCHANGED <<disk, tasks, tracker, gateway_log, concat_input, calls_made,
                   save_failures, reloads, callback>>
    /\ UNCHANGED component_vars

\* The tool answers: on success the estimate is put into the state and the save
\* starts; a failure is returned as it is.
estimate_cost_result ==
    /\ pc = "est_tool"
    /\ \/ LET s == [state EXCEPT !.estimated_cost =
                       <<estimate_cost_tool(Len(state.scenes), TotalDuration(state))>>]
          IN /\ state' = s
             /\ saving' = s
             /\ pc' = "est_save"
             /\ UNCHANGED <<op, outcome>>
       \/ Apply(Return("estimate", state, <<"success", FALSE>>))
    /\ UNCHANGED <<disk, tasks, tracker, gateway_log, concat_input, calls_made,
                   save_failures, reloads, callback>>
    /\ UNCHANGED component_vars

\* The save ends: written, the result is returned; raised, the error leaves
\* estimate_cost.
estimate_cost_saved ==
    /\ pc = "est_save"
    /\ \/ /\ disk' = Saved(saving)
          /\ Apply(Return("estimate", state, <<"success", TRUE>>))
          /\ UNCHANGED save_failures
       \/ /\ SaveMayFail
          /\ save_failures' = save_failures + 1
          /\ Apply(Raise("estimate", state, "save_state failed"))
          /\ UNCHANGED disk
    /\ UNCHANGED <<tasks, tracker, gateway_log, concat_input, calls_made,
                   reloads, callback>>
    /\ UNCHANGED component_vars

NextMain ==
    \/ estimate_cost
    \/ estimate_cost_result
    \/ estimate_cost_saved
    \/ Next

SpecMain == InitMain /\ [][NextMain]_vars

\* ---------------------------------------------------------------- the run under a fair event loop
\* The steps of an operation once the caller has entered it. The asyncio event
\* loop resumes every coroutine that is ready, and each gateway call,
\* concatenation call and save is taken to return (with a result or an error):
\* a step that stays possible is eventually taken.
RunStep ==
    \/ generate_images_dispatch
    \/ \E i \in DOMAIN tasks.image : generate_scene_image_call(i)
    \/ \E i \in DOMAIN tasks.image : generate_scene_image_result(i)
    \/ \E i \in DOMAIN tasks.image : generate_scene_image_saved(i)
    \/ generate_images_gathered
    \/ generate_videos_dispatch
    \/ \E i \in DOMAIN tasks.video : generate_scene_video_call(i)
    \/ \E i \in DOMAIN tasks.video : generate_scene_video_result(i)
    \/ \E i \in DOMAIN tasks.video : generate_scene_video_saved(i)
    \/ generate_videos_gathered
    \/ concatenate_videos_call
    \/ concatenate_videos_result
    \/ concatenate_videos_saved
    \/ execute_full_production_reraise

SpecFair == Init /\ [][Next]_vars /\ WF_vars(RunStep)

\* ---------------------------------------------------------------- batch_process
\* A call batch_process(items, processor, batch_size, progress_callback) on the
\* items 1..total. i is the loop variable of "for i in range(0, total,
\* batch_size)"; jobs holds each processor call's position, finished the order in
\* which the calls ended.
ProcessorResult(item) == <<"ok", item>>

BatchCall(total, batch_size, has_callback) ==
    [phase |-> "running", pc |-> "loop", total |-> total,
     batch_size |-> batch_size, has_callback |-> has_callback, i |-> 0,
     jobs |-> [k \in 1..total |-> "idle"], finished |-> <<>>,
     results |-> <<>>, progress_calls |-> <<>>, error |-> None]

Min(a, b) == IF a <= b THEN a ELSE b

\* items[i : i + batch_size], as positions of items.
Batch(b) == (b.i + 1)..Min(b.i + b.batch_size, b.total)

\* range(0, total, batch_size) has a value left at i.
InRange(b) == b.batch_size > 0 /\ b.i < b.total

\* asyncio.gather's value: the results in the order of its arguments.
Gathered_completion_order(b, k) ==
    LET InBatch(x) == x \in Batch(b)
        ended == SelectSeq(b.finished, InBatch)
    IN  [j \in 1..Len(ended) |-> ProcessorResult(ended[j])]

RECURSIVE Gathered(_, _)
Gathered(b, k) ==
    IF k > Min(b.i + b.batch_size, b.total) THEN <<>>
    ELSE <<ProcessorResult(k)>> \o Gathered(b, k + 1)

\* Every count of items from none to MaxItems, every batch_size from -1 to
\* MaxBatchSize (the argument is not validated), with and without a callback.
InitBatch ==
    /\ \E total \in 0..MaxItems, batch_size \in -1..MaxBatchSize, cb \in BOOLEAN :
           batch = BatchCall(total, batch_size, cb)
    /\ state = WorkflowState("planning", FALSE, 0)
    /\ disk = [exists |-> FALSE, content |-> NoSnapshot]
    /\ op = "none"
    /\ pc = "idle"
    /\ saving = NoSnapshot
    /\ tasks = [image |-> <<>>, video |-> <<>>]
    /\ tracker = NewTracker(0)
    /\ gateway_log = {}
    /\ concat_input = <<>>
    /\ outcome = NoOutcome
    /\ calls_made = 0
    /\ save_failures = 0
    /\ reloads = 0
    /\ callback = NoCallback
    /\ sched = NoSched
    /\ progress = NoProgress
    /\ store = NoStore
    /\ retry = NoRetry
    /\ planner = NoPlanner
    /\ tool = NoTool

\* The head of the loop: range() refuses a step of zero; with a value left, the
\* batch's processor calls are created and handed to asyncio.gather; with none,
\* batch_process returns its results.
batch_loop ==
    /\ batch.phase = "running"
    /\ batch.pc = "loop"
    /\ batch' =
           IF batch.batch_size = 0
           THEN [batch EXCEPT !.phase = "raised",
                              !.error = <<"range() arg 3 must not be zero">>]
           ELSE IF InRange(batch)
           THEN [batch EXCEPT !.pc = "gather",
                    !.jobs = [k \in DOMAIN @ |->
                                 IF k \in Batch(batch) THEN "running" ELSE @[k]]]
           ELSE [batch EXCEPT !.phase = "returned"]
    /\ UNCHANGED <<workflow_vars, sched, progress, store, retry, planner, tool>>

\* A processor call ends, with its result or with an exception; calls already
\* started go on after batch_process itself has raised.
processor_done(k) ==
    /\ batch.phase # "none"
    /\ batch.jobs[k] = "running"
    /\ \E ended \in {"done", "failed"} :
           batch' = [batch EXCEPT !.jobs[k] = ended,
                                  !.finished = Append(@, k)]
    /\ UNCHANGED <<workflow_vars, sched, progress, store, retry, planner, tool>>

\* await asyncio.gather(...) resumes: with the first exception as soon as a call
\* of the batch has raised, or, every call of the batch done, with their results,
\* which extend the list.
batch_gathered ==
    /\ batch.phase = "running"
    /\ batch.pc = "gather"
    /\ IF \E k \in Batch(batch) : batch.jobs[k] = "failed"
       THEN batch' = [batch EXCEPT !.phase = "raised", !.error = <<"processor failed">>]
       ELSE /\ \A k \in Batch(batch) : batch.jobs[k] = "done"
            /\ batch' = [batch EXCEPT
                   !.results = @ \o Gathered(batch, batch.i + 1),
                   !.pc = IF batch.has_callback THEN "callback" ELSE "loop",
                   !.i = IF batch.has_callback THEN @ ELSE @ + batch.batch_size]
    /\ UNCHANGED <<workflow_vars, sched, progress, store, retry, planner, tool>>

\* await progress_callback(min(i + batch_size, total), total): it returns and the
\* loop goes on, or it raises and so does batch_process.
batch_progress_callback ==
    /\ batch.phase = "running"
    /\ batch.pc = "callback"
    /\ LET told == [batch EXCEPT !.progress_calls =
                       Append(@, <<Min(batch.i + batch.batch_size, batch.total),
                                   batch.total>>)]
       IN  \/ batch' = [told EXCEPT !.pc = "loop", !.i = @ + batch.batch_size]
           \/ batch' = [told EXCEPT !.phase = "raised",
                                    !.error = <<"progress_callback failed">>]
    /\ UNCHANGED <<workflow_vars, sched, progress, store, retry, planner, tool>>

NextBatch ==
    \/ batch_loop
    \/ \E k \in DOMAIN batch.jobs : processor_done(k)
    \/ batch_gathered
    \/ batch_progress_callback

SpecBatch == InitBatch /\ [][NextBatch]_vars

\* ---------------------------------------------------------------- the MCP tool handlers
\* A call of one of generate_image_tool, generate_video_tool,
\* concatenate_videos_tool, save_state_tool and load_state_tool: the statements of
\* its try block run one after another (step), each ending normally or with an
\* exception; pending is the exception that waits for the inner "finally" of
\* concatenate_videos_tool to end. The state tools work on the store's files.
ToolNames ==
    {"generate_image", "generate_video", "concatenate_videos", "save_state",
     "load_state"}

\* The statements of each try block that can raise.
ToolBody(name) ==
    IF name = "generate_image"
    THEN <<"NanoBananaClient()", "get_image_path", "generate_and_save_image">>
    ELSE IF name = "generate_video"
    THEN <<"VeoClient()", "get_video_path", "generate_and_save_video">>
    ELSE IF name = "concatenate_videos"
    THEN <<"get_final_video_path", "write list_file", "ffmpeg.run", "unlink">>
    ELSE IF name = "save_state"
    THEN <<"json.loads", "WorkflowState(**state_dict)", "StateManager.save_state">>
    ELSE <<"StateManager.load_state", "model_dump">>

\* str(e) of the exceptions a statement can end with, whatever its input; an
\* exception may have an empty text.
StepErrors(statement) ==
    IF statement \in {"NanoBananaClient()", "VeoClient()"}
    THEN {"Google API key is required"}
    ELSE IF statement \in {"get_image_path", "get_video_path", "get_final_video_path",
                           "write list_file", "unlink", "StateManager.save_state",
                           "StateManager.load_state"}
    THEN {"Permission denied"}
    ELSE IF statement \in {"generate_and_save_image", "generate_and_save_video"}
    THEN {"429 rate limit", "No images generated", ""}
    ELSE IF statement = "ffmpeg.run"
    THEN {"ffmpeg error"}
    ELSE {}

\* The state_json arguments of save_state_tool: no JSON at all, JSON that is not
\* an object, an object whose status is no WorkflowStatus, and the dumps of
\* the states of a session.
Malformed == [json |-> "malformed"]
BadStatus(session_id) ==
    [model_dump(Stamped(PlanningState, session_id, <<1, 0>>, <<1, 0>>))
        EXCEPT !.v.status = JStr("bogus")]
StateJsons ==
    {Malformed, JArr(<<>>)}
        \cup {BadStatus(id) : id \in SessionIds}
        \cup {model_dump(s) : s \in UNION {StoreStates(id) : id \in SessionIds}}

\* The exception a statement raises because of its input, if any.
InputError(statement, input) ==
    IF statement = "json.loads" /\ input = Malformed
    THEN <<"Expecting value">>
    ELSE IF statement = "WorkflowState(**state_dict)" /\ input.json # "object"
    THEN <<"argument after ** must be a mapping">>
    ELSE IF statement = "WorkflowState(**state_dict)"
            /\ input.v.status.v \notin StatusValues
    THEN <<"1 validation error for WorkflowState">>
    ELSE None

ToolCall(name, input) ==
    [phase |-> "running", name |-> name, input |-> input, step |-> 1,
     pending |-> None, loaded |-> None, result |-> None, raised |-> None]

\* "except Exception as e: return {success: False, error: str(e), ...}"
Except_propagates(t, error) == [t EXCEPT !.phase = "raised", !.raised = <<error>>]

Except(t, error) ==
    [t EXCEPT !.phase = "returned",
              !.result =
                  <<IF t.name \in {"generate_image", "generate_video"}
                    THEN [success |-> FALSE, error |-> error, scene_id |-> t.input]
                    ELSE [success |-> FALSE, error |-> error]>>]

\* The dictionary returned at the end of the try block.
ToolSuccess(t) ==
    IF t.name = "generate_image"
    THEN [success |-> TRUE, image_path |-> get_image_path(t.input), scene_id |-> t.input]
    ELSE IF t.name = "generate_video"
    THEN [success |-> TRUE, video_path |-> get_video_path(t.input), scene_id |-> t.input]
    ELSE IF t.name = "concatenate_videos"
    THEN [success |-> TRUE, final_video_path |-> get_final_video_path]
    ELSE IF t.name = "save_state"
    THEN [success |-> TRUE, session_id |-> t.input.v.session_id.v]
    ELSE [success |-> TRUE, state |-> model_dump(t.loaded[1])]

InitTools ==
    /\ tool = [phase |-> "idle"]
    /\ store = [phase |-> "running",
                files |-> [id \in SessionIds |-> NoFile],
                dirs |-> {},
                saved |-> [id \in SessionIds |-> Absent],
                last |-> NoLast]
    /\ state = WorkflowState("planning", FALSE, 0)
    /\ disk = [exists |-> FALSE, content |-> NoSnapshot]
    /\ op = "none"
    /\ pc = "idle"
    /\ saving = NoSnapshot
    /\ tasks = [image |-> <<>>, video |-> <<>>]
    /\ tracker = NewTracker(0)
    /\ gateway_log = {}
    /\ concat_input = <<>>
    /\ outcome = NoOutcome
    /\ calls_made = 0
    /\ save_failures = 0
    /\ reloads = 0
    /\ callback = NoCallback
    /\ sched = NoSched
    /\ progress = NoProgress
    /\ retry = NoRetry
    /\ planner = NoPlanner
    /\ batch = NoBatch

\* A handler is called: a generation tool for a scene, the concatenation for the
\* videos of a plan, save_state_tool with a state_json, load_state_tool with a
\* session id.
tool_called ==
    /\ tool.phase # "running"
    /\ \/ \E name \in {"generate_image", "generate_video"}, scene_id \in 1..MaxScenes :
              tool' = ToolCall(name, scene_id)
       \/ \E n \in 1..MaxScenes :
              tool' = ToolCall("concatenate_videos", [i \in 1..n |-> get_video_path(i)])
       \/ \E state_json \in StateJsons : tool' = ToolCall("save_state", state_json)
       \/ \E session_id \in SessionIds : tool' = ToolCall("load_state", session_id)
    /\ UNCHANGED <<workflow_vars, sched, progress, store, retry, planner, batch>>

\* The current statement ends with an exception: it goes to the handler, after
\* the "finally" of concatenate_videos_tool when it was raised by ffmpeg.
tool_statement_raises ==
    /\ tool.phase = "running"
    /\ LET statement == ToolBody(tool.name)[tool.step]
           given == InputError(statement, tool.input)
       IN  \E error \in (IF given # None THEN {given[1]} ELSE StepErrors(statement)) :
               tool' = IF statement = "ffmpeg.run"
                       THEN [tool EXCEPT !.pending = <<error>>, !.step = @ + 1]
                       ELSE Except(tool, error)
    /\ UNCHANGED <<workflow_vars, sched, progress, store, retry, planner, batch>>

\* The current statement ends normally: the next one follows; after the last the
\* dictionary of the success is returned, or the pending exception handled.
\* StateManager.save_state writes the file, StateManager.load_state reads it and
\* answers None when there is none.
tool_statement_returns ==
    /\ tool.phase = "running"
    /\ LET statement == ToolBody(tool.name)[tool.step]
           last == tool.step = Len(ToolBody(tool.name))
           next == [tool EXCEPT !.step = @ + 1]
       IN  /\ InputError(statement, tool.input) = None
           /\ IF statement = "StateManager.save_state"
              THEN LET s == model_validate(tool.input)[1] IN
                   /\ store' = [get_session_dir(store, s.session_id) EXCEPT
                                   !.files[s.session_id] = model_dump(s),
                                   !.saved[s.session_id] = s,
                                   !.last = [op |-> "save", id |-> s.session_id,
                                             had |-> store.saved[s.session_id] # Absent,
                                             result |-> None]]
                   /\ tool' = [tool EXCEPT !.phase = "returned",
                                           !.result = <<ToolSuccess(tool)>>]
              ELSE IF statement = "StateManager.load_state"
              THEN /\ store' = get_session_dir(store, tool.input)
                   /\ tool' =
                          IF store.files[tool.input] = NoFile
                          THEN [tool EXCEPT
                                   !.phase = "returned",
                                   !.result = <<[success |-> FALSE,
                                                 error |-> "State not found for session"]>>]
                          ELSE [next EXCEPT
                                   !.loaded = model_validate(store.files[tool.input])]
              ELSE /\ UNCHANGED store
                   /\ tool' =
                          IF ~last THEN next
                          ELSE IF tool.pending # None THEN Except(tool, tool.pending[1])
                          ELSE [tool EXCEPT !.phase = "returned",
                                            !.result = <<ToolSuccess(tool)>>]
    /\ UNCHANGED <<workflow_vars, sched, progress, retry, planner, batch>>

NextTools ==
    \/ tool_called
    \/ tool_statement_raises
    \/ tool_statement_returns

SpecTools == InitTools /\ [][NextTools]_vars

\* ================================================================ properties
Finished(o) == pc = "idle" /\ outcome.op = o
Failed == state.status = "failed" /\ state.error_message # None
ImageStageRan == tasks.image # <<>>
VideoStageRan == tasks.video # <<>>
VideoCalls == {c \in gateway_log : c.kind = "video"}
ImageCalls == {c \in gateway_log : c.kind = "image"}
FailedTasks(ts) == {i \in DOMAIN ts : ts[i].pc = "done" /\ ~ts[i].success}
SucceededTasks(ts) == {i \in DOMAIN ts : ts[i].pc = "done" /\ ts[i].success}
Unresolved(ts) == \E i \in DOMAIN ts : ts[i].pc # "done"

Raised(o) == Finished(o) /\ outcome.kind = "raised"
\* C1: when execute_full_production has ended, a stage all of whose tasks failed
\* has left the state FAILED with an error message; the stage-fatal error of a
\* stage is raised only with zero successes in that stage; an image stage with a
\* success was followed by the video stage (unless the save of the new status
\* raised); and a run whose video stage had a success ends FAILED only through a
\* failure of the concatenation or of a save.
C1_StageFatalRule ==
    Finished("full") =>
        /\ (ImageStageRan /\ SucceededTasks(tasks.image) = {}) => Failed
        /\ (VideoStageRan /\ SucceededTasks(tasks.video) = {}) => Failed
        /\ (outcome.kind = "raised" /\ outcome.error = NoImagesError)
               => (ImageStageRan /\ SucceededTasks(tasks.image) = {})
        /\ (outcome.kind = "raised" /\ outcome.error = NoVideosError)
               => (VideoStageRan /\ SucceededTasks(tasks.video) = {})
        /\ (ImageStageRan /\ SucceededTasks(tasks.image) # {})
               => (VideoStageRan \/ outcome.error = "save_state failed")
        /\ (VideoStageRan /\ SucceededTasks(tasks.video) # {})
               => \/ outcome.kind = "returned" /\ state.status = "completed"
                  \/ outcome.error \in {"Concatenation failed", "save_state failed"}

\* C1 witness: a full run whose image stage succeeded only in part and whose
\* video stage failed in every task.
C1_Witness ==
    /\ Finished("full")
    /\ FailedTasks(tasks.image) # {}
    /\ SucceededTasks(tasks.image) # {}
    /\ VideoStageRan
    /\ SucceededTasks(tasks.video) = {}
    /\ state.status = "failed"
    /\ state.error_message = <<NoVideosError>>

\* C2 (as claimed): whenever execute_full_production has raised, the state is
\* FAILED in memory and the persisted state is FAILED too.
C2_FailedAndPersistedBeforeRaise ==
    Raised("full") =>
        /\ state.status = "failed"
        /\ disk.exists
        /\ disk.content.status = "failed"

\* C2 (amended): whenever execute_full_production has raised, the state is FAILED
\* in memory with an error message; and unless the except branch's own save
\* raised, the persisted state is that very state and the error raised is the one
\* whose text is stored; if that save raised, its error is the one raised.
C2_FailedThenPersistedUnlessSaveFails ==
    Raised("full") =>
        /\ Failed
        /\ outcome.persisted =>
               /\ disk = Saved(state)
               /\ state.error_message = <<outcome.error>>
        /\ ~outcome.persisted => outcome.error = "save_state failed"

\* C2 witness: the concatenation tool failed, the failure was stored and saved,
\* and the error reached the caller.
C2_Witness ==
    /\ Raised("full")
    /\ outcome.persisted
    /\ outcome.error = "Concatenation failed"
    /\ state.error_message = <<"Concatenation failed">>
    /\ disk.content.status = "failed"

Terminal == {"completed", "failed"}

\* A step of an operation (not a restart) in a run where no save has raised.
OperationStep == reloads' = reloads /\ save_failures' = 0

\* C3: a step of an operation taken when the status is COMPLETED or FAILED changes
\* nothing of the WorkflowState.
C3_TerminalRejectsMutation ==
    [][(state.status \in Terminal /\ OperationStep) => state' = state]_vars

Rank(status) == CHOOSE k \in 1..Len(WorkflowStatus) : WorkflowStatus[k] = status

\* C4: the status never moves to an earlier one (FAILED, the last, is reachable
\* from every non-terminal status), stated for the run the claim names: the steps
\* of execute_full_production on a state a restart has reloaded.
C4_StatusMonotonic ==
    [][(state.status \notin Terminal /\ OperationStep /\ reloads > 0 /\ op' = "full")
          => Rank(state'.status) >= Rank(state.status)]_vars

\* C5: while any image task is unresolved no video task exists and no video
\* gateway call has been made, and while any video task is unresolved the
\* concatenation tool has not been invoked.
C5_StageBarrier ==
    /\ Unresolved(tasks.image) => (tasks.video = <<>> /\ VideoCalls = {})
    /\ Unresolved(tasks.video) => concat_input = <<>>
    /\ Unresolved(tasks.image) => concat_input = <<>>

\* C5 witness: a video call is in flight after an image stage that resolved with
\* the first scene's task succeeding and the second one's failing.
C5_Witness ==
    /\ VideoCalls # {}
    /\ Len(state.scenes) >= 2
    /\ ~Unresolved(tasks.image)
    /\ tasks.image[1].success
    /\ ~tasks.image[2].success
    /\ \E i \in DOMAIN tasks.video : tasks.video[i].pc = "calling"

HasImage(i) == state.scenes[i].image_generated /\ state.scenes[i].image_path # None
ImageStageReturned == ImageStageRan /\ pc # "img_gather"
VideoStageReturned == VideoStageRan /\ pc # "vid_gather"

\* C6: once a stage's gather has returned, every scene's task has resolved, the
\* image gateway was called for every scene and the video gateway for every scene
\* that has its image, whatever the sibling tasks' results; and a stage operation
\* that got as far as starting its tasks returns the two counts, which add up to
\* the number of scenes, and does not raise.
C6_FailureIsolation ==
    /\ ImageStageReturned =>
           \A i \in SceneIds(state) :
               /\ tasks.image[i].pc = "done"
               /\ \E c \in ImageCalls : c.scene = i
    /\ VideoStageReturned =>
           \A i \in SceneIds(state) :
               /\ tasks.video[i].pc = "done"
               /\ HasImage(i) => \E c \in VideoCalls : c.scene = i
    /\ (Finished("images") /\ ImageStageRan) =>
           /\ outcome.kind = "returned"
           /\ outcome.value =
                  <<Cardinality(SucceededTasks(tasks.image)),
                    Cardinality(FailedTasks(tasks.image))>>
           /\ outcome.value[1] + outcome.value[2] = Len(state.scenes)
    /\ (Finished("videos") /\ VideoStageRan) =>
           /\ outcome.kind = "returned"
           /\ outcome.value =
                  <<Cardinality(SucceededTasks(tasks.video)),
                    Cardinality(FailedTasks(tasks.video))>>
           /\ outcome.value[1] + outcome.value[2] = Len(state.scenes)

\* C6 witness: a three-scene video stage has returned in which the first scene's
\* gateway call failed and the two later scenes' calls were made and succeeded.
C6_Witness ==
    /\ Len(state.scenes) = 3
    /\ VideoStageReturned
    /\ \A i \in 1..3 : \E c \in VideoCalls : c.scene = i
    /\ ~tasks.video[1].success
    /\ tasks.video[2].success
    /\ tasks.video[3].success

\* C7: every list handed to the concatenation tool holds exactly the video paths
\* of the plan's scenes that have one, each once, in increasing plan position.
C7_ConcatInPlanOrder ==
    \A k \in 1..Len(concat_input) :
        LET list == concat_input[k] IN
        /\ \A a, b \in 1..Len(list) : a < b => list[a][2] < list[b][2]
        /\ {list[a] : a \in 1..Len(list)} =
               {state.scenes[i].video_path : i \in SceneIds(state)} \ {None}
        /\ \A a \in 1..Len(list) : list[a] = state.scenes[list[a][2]].video_path

\* C7 witness: the tool was invoked with three paths although the third scene's
\* video completed first and the first scene's last.
C7_Witness ==
    /\ concat_input # <<>>
    /\ Len(concat_input[1]) = 3
    /\ state.production_state.videos_generated = <<3, 2, 1>>

\* C8: every video gateway call made for the scene at plan position i > 1 got as
\* start frame the image path recorded for the scene at position i - 1 (in the
\* scene and, when there is one, in AssetPaths), and the call for the first scene
\* got none.
C8_ContinuityWiring ==
    \A c \in VideoCalls :
        IF c.scene = 1
        THEN c.start_image_path = None
        ELSE /\ c.start_image_path = state.scenes[c.scene - 1].image_path
             /\ c.start_image_path # None =>
                    /\ (c.scene - 1) \in DOMAIN state.assets.images
                    /\ c.start_image_path = state.assets.images[c.scene - 1]

\* C8 witness: in a three-scene plan the calls for scenes 2 and 3 were made with
\* the images of scenes 1 and 2, and the call for scene 1 with no start frame.
C8_Witness ==
    /\ Len(state.scenes) = 3
    /\ \E c \in VideoCalls : c.scene = 1 /\ c.start_image_path = None
    /\ \E c \in VideoCalls : c.scene = 2 /\ c.start_image_path = get_image_path(1)
    /\ \E c \in VideoCalls : c.scene = 3 /\ c.start_image_path = get_image_path(2)

\* C9: every video gateway call was made for a scene that has its own image, with
\* that image as end frame; a scene without one has its video task resolved as a
\* failure with no gateway call and is marked failed, and the video stage
\* operation still returns its counts.
C9_OnlyScenesWithImage ==
    /\ \A c \in VideoCalls :
           /\ HasImage(c.scene)
           /\ c.end_image_path = state.scenes[c.scene].image_path
    /\ \A i \in DOMAIN tasks.video :
           (~HasImage(i) /\ tasks.video[i].pc # "ready") =>
               /\ tasks.video[i].pc = "done"
               /\ ~tasks.video[i].success
               /\ ~\E c \in VideoCalls : c.scene = i
               /\ Contains(state.production_state.failed_scenes, i)
    /\ (Finished("videos") /\ VideoStageRan) => outcome.kind = "returned"

\* C9 witness: the second scene's image was not produced; in the video stage its
\* task was resolved without a call while scenes 1 and 3 were called.
C9_Witness ==
    /\ Len(state.scenes) = 3
    /\ VideoStageReturned
    /\ ~HasImage(2)
    /\ tasks.video[2].pc = "done"
    /\ ~\E c \in VideoCalls : c.scene = 2
    /\ \E c \in VideoCalls : c.scene = 1
    /\ \E c \in VideoCalls : c.scene = 3
    /\ tasks.video[3].success

\* C10: after a restart, no video gateway call is made for a scene that was
\* already marked video-generated when the call was made.
C10_ResumeSkipsDoneVideos ==
    reloads > 0 => \A c \in VideoCalls : ~c.was_done

\* C11: no image gateway call is made for a scene that was already marked
\* image-generated when the call was made.
C11_ImagesOnlyForPending ==
    \A c \in ImageCalls : ~c.was_done

MidStage == pc \in {"img_gather", "vid_gather"}

\* C12: at every point of a running image or video stage, the persisted state
\* holds the completion mark of every task that has resolved as a success and the
\* failed-scene mark of every task that has resolved as a failure.
C12_PerTaskPersistence ==
    MidStage =>
        /\ \A i \in SucceededTasks(tasks.image) : disk.content.scenes[i].image_generated
        /\ \A i \in SucceededTasks(tasks.video) : disk.content.scenes[i].video_generated
        /\ \A i \in FailedTasks(tasks.image) \cup FailedTasks(tasks.video) :
               Contains(disk.content.production_state.failed_scenes, i)

\* C13: an operation during which a save_state raised ends by raising that
\* persistence error to its caller; it does not return a result.
C13_SaveFailurePropagates ==
    (pc = "idle" /\ outcome.op \in Operations /\ save_failures > 0) =>
        /\ outcome.kind = "raised"
        /\ outcome.error = "save_state failed"

\* The scene completions a WorkflowState (in memory or persisted) holds.
Completions(s) ==
    {<<"image", i>> : i \in {j \in DOMAIN s.scenes : s.scenes[j].image_generated}}
        \cup {<<"video", i>> : i \in {j \in DOMAIN s.scenes : s.scenes[j].video_generated}}

\* C14: no step of an operation loses a scene completion, neither from the
\* in-memory state nor from the persisted one: what is written to disk holds
\* every completion the disk held before.
C14_CompletionWritesExclusive ==
    [][/\ Completions(state) \subseteq Completions(state')
       /\ (disk.exists /\ disk'.exists) =>
              Completions(disk.content) \subseteq Completions(disk'.content)]_vars

\* The in-memory half of C14 alone.
C14_NoCompletionLostInMemory ==
    [][Completions(state) \subseteq Completions(state')]_vars

NoVideoPath(s) == \A i \in DOMAIN s.scenes : s.scenes[i].video_path = None

\* C15: the concatenation tool is never invoked with an empty list; while no
\* scene of the plan has a video path the tool has not been invoked, final_video
\* is unset and the status is not COMPLETED; and concatenate_videos called on
\* such a state ends by raising (the missing-videos error, or the error of its
\* first save).
C15_ConcatNeedsAVideo ==
    /\ \A k \in 1..Len(concat_input) : concat_input[k] # <<>>
    /\ (state.has_plan /\ NoVideoPath(state)) =>
           /\ concat_input = <<>>
           /\ pc \notin {"cat_tool", "cat_done_save"}
           /\ state.assets.final_video = None
           /\ state.status # "completed"
    /\ (Finished("concat") /\ state.has_plan /\ NoVideoPath(state)) =>
           /\ outcome.kind = "raised"
           /\ outcome.error \in
                  {"No videos available for concatenation", "save_state failed"}

\* C15 witness: concatenate_videos was called on a plan without any video; it
\* saved the CONCATENATING status and raised the missing-videos error.
C15_Witness ==
    /\ Raised("concat")
    /\ Len(state.scenes) >= 1
    /\ NoVideoPath(state)
    /\ outcome.error = "No videos available for concatenation"
    /\ state.status = "concatenating"
    /\ disk = Saved(state)
    /\ concat_input = <<>>

\* The step in which concatenate_videos assigns assets.final_video: the tool has
\* reported success.
AssignsFinalVideo == pc = "cat_tool" /\ pc' = "cat_done_save"

\* The first half of C16 alone: final_video changes only from unset to a value,
\* only in the assigning step, which sets COMPLETED and starts the save.
C16_FinalVideoOnlyOnSuccess ==
    [][(OperationStep /\ state'.assets.final_video # state.assets.final_video) =>
           /\ state.assets.final_video = None
           /\ AssignsFinalVideo
           /\ state'.status = "completed"
           /\ saving' = state']_vars

\* C16: over the operations of a session, final_video changes only from unset to
\* a value, only in the step where the concatenation tool reported success, which
\* sets COMPLETED and starts the save; and it is assigned once: the assigning
\* step is never taken on a state whose final_video is already set.
C16_FinalVideoSetOnce ==
    [][OperationStep =>
           /\ (state'.assets.final_video # state.assets.final_video) =>
                  /\ state.assets.final_video = None
                  /\ AssignsFinalVideo
                  /\ state'.status = "completed"
                  /\ saving' = state'
           /\ AssignsFinalVideo => state.assets.final_video = None]_vars

\* execute_full_production has ended and nothing failed on its way: no save, no
\* image task, no video task, and not the concatenation.
EverythingSucceeded ==
    /\ Finished("full")
    /\ save_failures = 0
    /\ ImageStageRan
    /\ FailedTasks(tasks.image) = {}
    /\ FailedTasks(tasks.video) = {}
    /\ outcome.error # "Concatenation failed"

\* C17: when execute_full_production, started on an approved plan of N scenes, has
\* ended with every image call, every video call, the concatenation and every
\* save having succeeded, it has returned, the status is COMPLETED and persisted,
\* final_video is set, and the concatenation tool was invoked exactly once, with
\* the N scenes' video paths in plan order.
C17_EndToEndSuccess ==
    EverythingSucceeded =>
        /\ outcome.kind = "returned"
        /\ state.status = "completed"
        /\ state.assets.final_video # None
        /\ disk = Saved(state)
        /\ Len(concat_input) = 1
        /\ concat_input[1] = [i \in 1..Len(state.scenes) |-> get_video_path(i)]
        /\ \A i \in SceneIds(state) :
               state.scenes[i].image_generated /\ state.scenes[i].video_generated

\* C17 witness: a three-scene plan has gone through the whole pipeline without a
\* failure and the tool got its three videos.
C17_Witness ==
    /\ EverythingSucceeded
    /\ Len(state.scenes) = 3
    /\ state.status = "completed"
    /\ Len(concat_input[1]) = 3

\* The statuses from which a workflow may go on, one by one.
Resumable ==
    {"planning", "approval", "generating_images", "generating_videos", "concatenating"}

\* C18: every answer can_resume() has given is true exactly for a status other
\* than COMPLETED and FAILED, and on the present state set to each of the seven
\* statuses it answers true for exactly those five.
C18_CanResumeIffNotTerminal ==
    /\ outcome.op = "can_resume" =>
           (outcome.value[2] <=> outcome.value[1] \in Resumable)
    /\ \A st \in StatusValues :
           can_resume(update_status(state, st)) <=> st \in Resumable
    /\ StatusValues = Resumable \cup {"completed", "failed"}

\* C18 witness: can_resume() was asked on a state that mark_failed had made
\* FAILED, and answered false.
C18_Witness ==
    /\ outcome.op = "can_resume"
    /\ outcome.value = <<"failed", FALSE>>
    /\ state.status = "failed"
    /\ state.error_message # None

\* C19: gather_with_concurrency never ends by raising; when it has returned, every
\* task was begun exactly once and the list has one slot per task, in the order
\* of the arguments, holding the captured failure of a failing task and the
\* value of every other; and no task is ever begun twice.
C19_ResultContract ==
    /\ sched.phase # "raised"
    /\ \A i \in DOMAIN sched.jobs : sched.jobs[i].attempts <= 1
    /\ sched.phase = "returned" =>
           /\ Len(sched.results) = Len(sched.jobs)
           /\ \A i \in DOMAIN sched.jobs :
                  /\ sched.jobs[i].attempts = 1
                  /\ sched.results[i] =
                         IF sched.jobs[i].fails THEN <<"error", i>> ELSE <<"ok", i>>

\* C19 restricted to calls made with return_exceptions=True.
C19_ResultContractWhenCapturing ==
    sched.return_exceptions => C19_ResultContract

\* The sem_tasks that hold a permit of the semaphore: inside "async with", or
\* woken with the permit handed to them.
Holding == {i \in DOMAIN sched.jobs : sched.jobs[i].pc \in {"running", "woken"}}
Begun(i) == i \in DOMAIN sched.jobs /\ sched.jobs[i].attempts >= 1

\* C20 (as claimed): at every moment at most n tasks hold the semaphore, and
\* every task of the batch is eventually begun.
C20_BoundedConcurrency ==
    /\ [](Cardinality(Holding) <= sched.n)
    /\ \A i \in 1..MaxTasks : (i \in DOMAIN sched.jobs) ~> Begun(i)

\* C20 (amended): at every moment at most n tasks hold the semaphore (the permits
\* held and the permits left add up to n), and for n >= 1 every task of the
\* batch is eventually begun.
C20_BoundedConcurrencyPositiveN ==
    /\ [](/\ Cardinality(Holding) <= sched.n
          /\ Cardinality(Holding) + sched.value = sched.n)
    /\ \A i \in 1..MaxTasks :
           (i \in DOMAIN sched.jobs /\ sched.n >= 1) ~> Begun(i)

\* C20 witness: with n = 2 and three tasks, two hold the semaphore and the third
\* waits for it.
C20_Witness ==
    /\ sched.n = 2
    /\ Len(sched.jobs) = 3
    /\ Cardinality(Holding) = 2
    /\ sched.jobs[3].pc = "waiting"
    /\ sched.value = 0

\* The gateway calls in flight: the tasks awaiting generate_image_tool or
\* generate_video_tool.
InFlight ==
    {<<"image", i>> : i \in {j \in DOMAIN tasks.image : tasks.image[j].pc = "calling"}}
        \cup {<<"video", i>> : i \in {j \in DOMAIN tasks.video : tasks.video[j].pc = "calling"}}

\* C21: the gateway calls in flight at one time stay below a limit that does not
\* grow with the plan: a plan of MaxScenes scenes never has all of its calls in
\* flight at once.
C21_GatewayCallsBounded ==
    Cardinality(InFlight) < MaxScenes

\* The mark calls of one kind that have got as far as counting.
Counted(kind) ==
    {c \in DOMAIN progress.calls :
        progress.calls[c].kind = kind /\ progress.calls[c].pc \in {"counted", "done"}}
AllMarksDone == \A c \in DOMAIN progress.calls : progress.calls[c].pc = "done"

\* C22: under every interleaving of the mark calls no update is lost: each counter
\* equals the number of calls of its kind that have counted, so a calls of
\* mark_completed and b of mark_failed leave completed = a and failed = b; at
\* most one call is inside the lock; every get_progress snapshot adds up to
\* total; and is_complete answered true exactly when completed + failed = total.
C22_TrackerCountsSafely ==
    /\ progress.completed = Cardinality(Counted("completed"))
    /\ progress.failed = Cardinality(Counted("failed"))
    /\ AllMarksDone =>
           /\ progress.completed =
                  Cardinality({c \in DOMAIN progress.calls :
                                  progress.calls[c].kind = "completed"})
           /\ progress.failed =
                  Cardinality({c \in DOMAIN progress.calls :
                                  progress.calls[c].kind = "failed"})
    /\ Cardinality({c \in DOMAIN progress.calls :
                       progress.calls[c].pc \in {"locked", "counted"}}) <= 1
    /\ progress.snapshot # None =>
           progress.snapshot[1] + progress.snapshot[2] + progress.snapshot[3]
               = progress.total
    /\ progress.complete # None =>
           (progress.complete[3] <=>
                progress.complete[1] + progress.complete[2] = progress.total)

\* C22 witness: three parallel calls, two of mark_completed and one of
\* mark_failed, have all ended on a tracker of three; the snapshot taken then is
\* (2, 1, 0) and is_complete answered true.
C22_Witness ==
    /\ progress.total = 3
    /\ Len(progress.calls) = 3
    /\ AllMarksDone
    /\ progress.completed = 2
    /\ progress.failed = 1
    /\ progress.snapshot = <<2, 1, 0>>
    /\ progress.complete = <<2, 1, TRUE>>

\* The sessions that have a saved state, and the ids in ascending order.
SavedIds == {id \in SessionIds : store.saved[id] # Absent}
RECURSIVE Ascending(_)
Ascending(ids) ==
    IF ids = {} THEN <<>>
    ELSE LET least == CHOOSE x \in ids : \A y \in ids : x <= y
         IN <<least>> \o Ascending(ids \ {least})

\* C23: what save_state writes is read back by load_state as a state equal in
\* every field (status, plan with flags and paths, ProductionState, AssetPaths,
\* estimate, error message, both timestamps); the stored value is a function of
\* the last state saved for the session alone, so saving the same state again
\* leaves it as it is and a later save replaces the earlier one.
C23_RoundTripAndOverwrite ==
    /\ \A id \in SessionIds : \A s \in StoreStates(id) :
           model_validate(model_dump(s)) = <<s>>
    /\ \A id \in SavedIds : store.files[id] = model_dump(store.saved[id])
    /\ (store.last.op = "load" /\ store.last.id \in SavedIds) =>
           store.last.result = <<store.saved[store.last.id]>>

\* C23 witness: a session saved as approved and saved again later, half done with
\* a timestamp that carries microseconds, has just been loaded and the later
\* state has come back.
C23_Witness ==
    /\ store.last.op = "load"
    /\ store.last.id = 1
    /\ store.last.result = <<Stamped(HalfDoneState, 1, <<1, 7>>, <<3, 5>>)>>
    /\ store.saved[2] = Stamped(FailedState, 2, <<1, 7>>, <<4, 9>>)

\* C24: the store is a map keyed by session id: a state file exists exactly for
\* the ids saved and not deleted since, and holds that state, whatever was done
\* to other sessions; exists answers that membership; load of an id without
\* saved state returns None; delete returns true exactly when there was a
\* state and leaves none; list_sessions returns exactly the saved ids in
\* ascending order.
C24_StoreIsAMap ==
    /\ \A id \in SessionIds :
           store.files[id] =
               IF id \in SavedIds THEN model_dump(store.saved[id]) ELSE NoFile
    /\ store.last.op = "exists" => (store.last.result <=> store.last.had)
    /\ store.last.op = "load" => (store.last.result = None <=> ~store.last.had)
    /\ store.last.op = "delete" =>
           /\ store.last.result <=> store.last.had
           /\ store.last.id \notin SavedIds
    /\ store.last.op = "list" => store.last.result = Ascending(SavedIds)

\* C24 witness: two sessions were saved, the first was deleted (and its
\* directory remains), and list_sessions has just returned the second alone.
C24_Witness ==
    /\ store.last.op = "list"
    /\ store.last.result = <<2>>
    /\ store.dirs = {1, 2}
    /\ store.files[1] = NoFile

\* The error classes of the gateway contract.
Permanent(e) == 400 <= e.status /\ e.status < 500 /\ e.status # 429
Transient(e) ==
    \/ e.status = 429
    \/ e.status >= 500
    \/ e.cls \in {"TimeoutException", "NetworkError"}

\* C25: an attempt that fails with a permanent client error (a 4xx other than
\* 429) is the call's last: the error is raised at once and no backoff wait
\* follows it, so a request that fails this way at first is attempted exactly
\* once with no wait at all.
C25_PermanentErrorsFailFast ==
    \A k \in 1..Len(retry.failures) :
        Permanent(retry.failures[k]) =>
            /\ k = Len(retry.failures)
            /\ Len(retry.waits) = k - 1
            /\ retry.pc = "done"
            /\ retry.result = [kind |-> "raised", error |-> <<retry.failures[k]>>]

\* C26: when every attempt so far failed with a transient error, the k-th
\* failure (k = 0, 1, ...) is followed by a wait of 2^k seconds unless it was
\* attempt max_retries - 1, after which the call raises that last error with
\* no wait; a call that ended without a permanent failure either returned, or
\* made max_retries attempts.
C26_TransientErrorsRetriedToTheCap ==
    (retry.phase = "running" /\ retry.failures # <<>>
        /\ \A k \in 1..Len(retry.failures) : Transient(retry.failures[k])) =>
        /\ \A k \in 1..Len(retry.waits) : retry.waits[k] = 2 ^ (k - 1)
        /\ retry.pc = "done" =>
               \/ /\ retry.result.kind = "returned"
                  /\ Len(retry.waits) = Len(retry.failures)
               \/ /\ retry.result =
                         [kind |-> "raised",
                          error |-> <<retry.failures[Len(retry.failures)]>>]
                  /\ Len(retry.failures) = retry.max_retries
                  /\ Len(retry.waits) = retry.max_retries - 1
        /\ retry.pc # "done" => Len(retry.waits) = Len(retry.failures)

\* A plan as the validity rule describes it: no scene over the maximum segment
\* duration, no empty prompt, and the durations' sum within the tolerance of
\* total_duration.
WellFormedPlan(p, max_duration) ==
    /\ \A i \in DOMAIN p.scenes :
           /\ p.scenes[i].duration <= max_duration
           /\ p.scenes[i].video_prompt # ""
           /\ p.scenes[i].end_image_prompt # ""
    /\ SumDurations(p.scenes) - p.total_duration <= Tolerance
    /\ p.total_duration - SumDurations(p.scenes) <= Tolerance

\* C27: validate_scene_plan accepts a plan exactly when it is well formed and
\* gives an error message with every rejection; in the flow from planning to
\* production a rejected proposal is neither put to approval, nor made into a
\* WorkflowState, nor produced: the state created and the production started
\* are those of a proposal that passed validation.
C27_PlanValidityGate ==
    /\ planner.plan_check # None =>
           /\ planner.plan_check[1][1] <=>
                  WellFormedPlan(planner.scene_plan[1], planner.max_scene_duration)
           /\ ~planner.plan_check[1][1] => planner.plan_check[1][2] # None
    /\ planner.pc \in {"approval", "created", "production"} =>
           /\ planner.scene_plan # None
           /\ planner.plan_check # None
           /\ WellFormedPlan(planner.scene_plan[1], planner.max_scene_duration)
    /\ planner.created # None =>
           /\ planner.pc \in {"created", "production"}
           /\ planner.created[1].status = "approval"
           /\ Len(planner.created[1].scenes) = Len(planner.scene_plan[1].scenes)
    /\ planner.producing # None =>
           /\ planner.created # None
           /\ WellFormedPlan(planner.producing[1], planner.max_scene_duration)
    /\ (planner.plan_check # None /\ ~planner.plan_check[1][1]) =>
           /\ planner.pc = "rejected"
           /\ planner.created = None
           /\ planner.producing = None

\* C27 witness: a proposal whose durations (4s + 4s) fall short of its total
\* (10.6s) by more than the tolerance, with every prompt present and no scene
\* too long, has just been rejected with the mismatch message; no state exists.
C27_Witness ==
    /\ planner.pc = "rejected"
    /\ planner.rejections = 1
    /\ planner.plan_check = <<(<<FALSE, <<"durations don't match total", 0>>>>)>>
    /\ SumDurations(planner.scene_plan[1].scenes) = 80
    /\ planner.scene_plan[1].total_duration = 106
    /\ planner.created = None

\* C28: the progress callback is observational only: every step that
\* execute_full_production takes when a callback is given is a step it takes
\* from the same situation when none is given -- the same status transition,
\* the same save, the same gateway calls and the same outcome.
C28_CallbackObservationalOnly ==
    [][/\ \A o \in Operations : Invoke(o) => Invoke_with(o, FALSE)
       /\ generate_images_gathered => generate_images_gathered_with(FALSE)
       /\ generate_videos_gathered => generate_videos_gathered_with(FALSE)]_vars

\* The fields of the state other than estimated_cost.
SameButEstimate(s, t) == [s EXCEPT !.estimated_cost = None] = [t EXCEPT !.estimated_cost = None]
EstimateStep == estimate_cost \/ estimate_cost_result \/ estimate_cost_saved

\* C30: estimate_cost on a state without a plan raises at once: the tool is not
\* awaited, nothing is saved and the state is as it was. On a state with a plan
\* no step of it changes a field other than estimated_cost; when the tool
\* succeeds its estimate is put into state.estimated_cost, and when
\* estimate_cost then returns, the state with that estimate is what the store
\* holds; when the tool fails the state and the store are left as they were.
C30_EstimateCostNeedsPlan ==
    [][/\ (estimate_cost /\ ~state.has_plan) =>
              /\ outcome' = [NoOutcome EXCEPT
                                !.kind = "raised", !.op = "estimate",
                                !.error = "No scene plan available for cost estimation"]
              /\ pc' = "idle"
              /\ state' = state
              /\ disk' = disk
       /\ EstimateStep => SameButEstimate(state, state')
       /\ (estimate_cost_result /\ pc' = "est_save") =>
              /\ state.has_plan
              /\ state'.estimated_cost =
                     <<estimate_cost_tool(Len(state.scenes), TotalDuration(state))>>
              /\ disk' = disk
       /\ (estimate_cost_result /\ pc' = "idle") =>
              /\ state' = state
              /\ disk' = disk
              /\ outcome'.value = <<"success", FALSE>>
       /\ (estimate_cost_saved /\ outcome'.kind = "returned") =>
              /\ state' = state
              /\ state.estimated_cost # None
              /\ disk' = Saved(state)]_vars

\* C30 as stated: whenever estimate_cost has ended on a state with a plan, the
\* estimate is in the state and the state is persisted.
C30_EstimateAlwaysStored ==
    (pc = "idle" /\ outcome.op = "estimate" /\ state.has_plan) =>
        /\ state.estimated_cost # None
        /\ disk = Saved(state)

\* C30 witness: estimate_cost has returned on an approved plan of two scenes:
\* the estimate for two images and sixteen seconds is in the state and in the
\* store, the status still APPROVAL and nothing produced.
C30_Witness ==
    /\ pc = "idle"
    /\ outcome.op = "estimate"
    /\ outcome.kind = "returned"
    /\ state.estimated_cost = <<CostEstimate(20, 640, 660)>>
    /\ state.status = "approval"
    /\ disk = Saved(state)
    /\ state.production_state = ProductionState

\* How often an id occurs in videos_generated.
Occurrences(seq, x) == Cardinality({k \in 1..Len(seq) : seq[k] = x})

\* What any mark call leaves: the marked id is a member of its collection, once;
\* if it was one already the ProductionState is as it was; every other id
\* occurs as often as before, and no id occurs twice anywhere.
MarkedOnce(ps, after, scene_id, was_member, is_member) ==
    /\ is_member
    /\ was_member => after = ps
    /\ \A x \in 1..MaxScenes :
           /\ Count(after.images_generated, x) <= 1
           /\ Occurrences(after.videos_generated, x) <= 1
           /\ Count(after.failed_scenes, x) <= 1
           /\ is_image_generated(ps, x) => is_image_generated(after, x)
           /\ is_video_generated(ps, x) => is_video_generated(after, x)
           /\ is_scene_failed(ps, x) => is_scene_failed(after, x)

\* C29: marking is idempotent: mark_image_generated, mark_video_generated and
\* mark_scene_failed make the id a member of their own collection and of no
\* other, leave the ProductionState unchanged when it was a member already,
\* never enter an id twice and never remove one; the membership queries of the
\* other ids and of the other collections answer as before.
C29_MarkingIdempotent ==
    [][\A scene_id \in 1..MaxScenes :
         LET ps == state.production_state
             after == state'.production_state
         IN /\ call_mark_image_generated(scene_id) =>
                   /\ MarkedOnce(ps, after, scene_id,
                                 is_image_generated(ps, scene_id),
                                 is_image_generated(after, scene_id))
                   /\ after.videos_generated = ps.videos_generated
                   /\ after.failed_scenes = ps.failed_scenes
                   /\ \A x \in 1..MaxScenes \ {scene_id} :
                          is_image_generated(after, x) <=> is_image_generated(ps, x)
            /\ call_mark_video_generated(scene_id) =>
                   /\ MarkedOnce(ps, after, scene_id,
                                 is_video_generated(ps, scene_id),
                                 is_video_generated(after, scene_id))
                   /\ after.images_generated = ps.images_generated
                   /\ after.failed_scenes = ps.failed_scenes
                   /\ \A x \in 1..MaxScenes \ {scene_id} :
                          is_video_generated(after, x) <=> is_video_generated(ps, x)
            /\ call_mark_scene_failed(scene_id) =>
                   /\ MarkedOnce(ps, after, scene_id,
                                 is_scene_failed(ps, scene_id),
                                 is_scene_failed(after, scene_id))
                   /\ after.images_generated = ps.images_generated
                   /\ after.videos_generated = ps.videos_generated
                   /\ \A x \in 1..MaxScenes \ {scene_id} :
                          is_scene_failed(after, x) <=> is_scene_failed(ps, x)]_vars

\* C29 witness: four mark calls were made and the collections hold three
\* entries: scene 1 as failed and with an image, scene 2 with a video -- one of
\* the calls marked an id that was present already.
C29_Witness ==
    /\ calls_made = 4
    /\ DOMAIN state.production_state.images_generated = {1}
    /\ Count(state.production_state.images_generated, 1) = 1
    /\ state.production_state.videos_generated = <<2>>
    /\ DOMAIN state.production_state.failed_scenes = {1}
    /\ Count(state.production_state.failed_scenes, 1) = 1

\* A step in which the task of scene i of a stage goes to its gateway.
ImageCallStep ==
    \E i \in DOMAIN tasks.image :
        /\ i \in DOMAIN tasks'.image
        /\ tasks.image[i].pc = "ready"
        /\ tasks'.image[i].pc = "calling"
VideoCallStep ==
    \E i \in DOMAIN tasks.video :
        /\ i \in DOMAIN tasks'.video
        /\ tasks.video[i].pc = "ready"
        /\ tasks'.video[i].pc = "calling"
\* A step in which the caller enters stage operation o.
Entered(o) ==
    /\ pc = "idle"
    /\ calls_made' = calls_made + 1
    /\ op' = o \/ outcome'.op = o
Persisted(status) == disk.exists /\ disk.content.status = status

\* C31: an image gateway call is made only while the status is GENERATING_IMAGES
\* in memory and in the store, a video gateway call only while it is
\* GENERATING_VIDEOS in both, and through the call the status stays so in both; a
\* stage's tasks are created by the step that ends the save of the stage's status;
\* and generate_images, generate_videos and concatenate_videos called on a state
\* without a plan raise at once with the state as it was.
C31_StatusSavedBeforeDispatch ==
    [][/\ ImageCallStep =>
              /\ state.status = "generating_images"
              /\ Persisted("generating_images")
              /\ state'.status = "generating_images"
              /\ disk' = disk
       /\ VideoCallStep =>
              /\ state.status = "generating_videos"
              /\ Persisted("generating_videos")
              /\ state'.status = "generating_videos"
              /\ disk' = disk
       /\ (tasks.image = <<>> /\ tasks'.image # <<>>) =>
              /\ disk' = Saved(state)
              /\ state.status = "generating_images"
       /\ (tasks.video = <<>> /\ tasks'.video # <<>>) =>
              /\ disk' = Saved(state)
              /\ state.status = "generating_videos"
       /\ \A o \in {"images", "videos", "concat"} :
              (Entered(o) /\ ~state.has_plan) =>
                  /\ state' = state
                  /\ disk' = disk
                  /\ pc' = "idle"
                  /\ outcome'.kind = "raised"
                  /\ outcome'.error = "No scene plan available"]_vars

\* C31 witness: in a run of execute_full_production a video call is in flight
\* with GENERATING_VIDEOS in memory and in the store, after an image stage in
\* which a task failed.
C31_Witness ==
    /\ op = "full"
    /\ \E i \in DOMAIN tasks.video : tasks.video[i].pc = "calling"
    /\ FailedTasks(tasks.image) # {}
    /\ state.status = "generating_videos"
    /\ Persisted("generating_videos")

\* The scenes for which a task of the run has recorded a completion in the state.
RecordedImages == {i \in SceneIds(state) : is_image_generated(state.production_state, i)}
RecordedVideos == {i \in SceneIds(state) : is_video_generated(state.production_state, i)}
\* The stage's tracker holds exactly the marks of the resolved tasks ts.
TrackerCounts(ts) ==
    tracker = [total |-> Len(state.scenes),
               completed |-> Cardinality(SucceededTasks(ts)),
               failed |-> Cardinality(FailedTasks(ts))]
\* What a stage that has drained its tasks ts reports: the pair, the tracker and
\* the completions recorded by its tasks.
Accounted(ts, recorded) ==
    /\ Successful(ts) + Cardinality(FailedTasks(ts)) = Len(state.scenes)
    /\ TrackerCounts(ts)
    /\ tracker.completed + tracker.failed = tracker.total
    /\ Successful(ts) = Cardinality(recorded)

\* C32: while a stage gathers its tasks the tracker holds one mark per resolved
\* task (completed for a success, failed for a failure); when generate_images or
\* generate_videos has returned, the pair it returned is (succeeded, failed) with
\* succeeded + failed the number of scenes, the tracker is complete with the same
\* two counts, and succeeded is the number of scenes whose completion the run's
\* tasks recorded in the state; the same holds of the two stages inside
\* execute_full_production once each has drained.
C32_StageAccounting ==
    /\ pc = "img_gather" => TrackerCounts(tasks.image)
    /\ pc = "vid_gather" => TrackerCounts(tasks.video)
    /\ (Finished("images") /\ ImageStageRan) =>
           /\ outcome.kind = "returned"
           /\ outcome.value = <<tracker.completed, tracker.failed>>
           /\ Accounted(tasks.image, RecordedImages)
    /\ (Finished("videos") /\ VideoStageRan) =>
           /\ outcome.kind = "returned"
           /\ outcome.value = <<tracker.completed, tracker.failed>>
           /\ Accounted(tasks.video, RecordedVideos)
    /\ (op = "full" /\ pc = "vid_status_save") =>
           Accounted(tasks.image, RecordedImages)
    /\ (op = "full" /\ pc = "cat_status_save") =>
           Accounted(tasks.video, RecordedVideos)

\* C33: in every state of the session, in memory and in the store, a scene whose
\* video is recorded has its image recorded: video_generated implies
\* image_generated with an image_path, and every id of videos_generated is in
\* images_generated.
VideoImpliesImage(s) ==
    \A i \in SceneIds(s) :
        /\ s.scenes[i].video_generated =>
               /\ s.scenes[i].image_generated
               /\ s.scenes[i].image_path # None
        /\ is_video_generated(s.production_state, i) =>
               is_image_generated(s.production_state, i)

C33_VideoImpliesImage ==
    /\ VideoImpliesImage(state)
    /\ disk.exists => VideoImpliesImage(disk.content)
    /\ \A k \in 1..Len(state.production_state.videos_generated) :
           state.production_state.videos_generated[k] \in SceneIds(state)

\* C33 witness: after a restart, generate_videos has recorded the video of a scene
\* that has its image and has failed the scene that has none.
C33_Witness ==
    /\ reloads = 1
    /\ Finished("videos")
    /\ VideoStageRan
    /\ \E i \in SceneIds(state) :
           /\ state.scenes[i].video_generated
           /\ is_video_generated(state.production_state, i)
           /\ tasks.video[i].success
    /\ \E j \in SceneIds(state) :
           /\ ~state.scenes[j].image_generated
           /\ ~state.scenes[j].video_generated
           /\ ~tasks.video[j].success

\* The three records of scene i's image, and of its video, in state s.
ImageRecordsAgree(s, i) ==
    /\ s.scenes[i].image_generated <=> is_image_generated(s.production_state, i)
    /\ s.scenes[i].image_generated <=> i \in DOMAIN s.assets.images
    /\ i \in DOMAIN s.assets.images => s.assets.images[i] = s.scenes[i].image_path
    /\ ~s.scenes[i].image_generated => s.scenes[i].image_path = None
VideoRecordsAgree(s, i) ==
    /\ s.scenes[i].video_generated <=> is_video_generated(s.production_state, i)
    /\ s.scenes[i].video_generated <=> i \in DOMAIN s.assets.videos
    /\ i \in DOMAIN s.assets.videos => s.assets.videos[i] = s.scenes[i].video_path
    /\ ~s.scenes[i].video_generated => s.scenes[i].video_path = None
RecordsAgree(s) ==
    /\ \A i \in SceneIds(s) : ImageRecordsAgree(s, i) /\ VideoRecordsAgree(s, i)
    /\ DOMAIN s.assets.images \subseteq SceneIds(s)
    /\ DOMAIN s.assets.videos \subseteq SceneIds(s)

\* C34: between any two segments of the tasks, in the dump every save is writing
\* and in the store, a scene's flag on the Scene, its id in the ProductionState
\* list and its entry in AssetPaths agree, and the entry is the scene's path; for
\* images and for videos.
C34_RecordsAgree ==
    /\ RecordsAgree(state)
    /\ disk.exists => RecordsAgree(disk.content)
    /\ saving # NoSnapshot => RecordsAgree(saving)
    /\ \A i \in DOMAIN tasks.image :
           tasks.image[i].snapshot # NoSnapshot => RecordsAgree(tasks.image[i].snapshot)
    /\ \A i \in DOMAIN tasks.video :
           tasks.video[i].snapshot # NoSnapshot => RecordsAgree(tasks.video[i].snapshot)

\* C34 witness: one video task's save is in flight with its scene's video in all
\* three records, while another task is still at the gateway with its scene's
\* video in none.
C34_Witness ==
    \E i, j \in DOMAIN tasks.video :
        /\ tasks.video[i].pc = "saving"
        /\ tasks.video[j].pc = "calling"
        /\ state.scenes[i].video_generated
        /\ is_video_generated(state.production_state, i)
        /\ state.assets.videos[i] = state.scenes[i].video_path
        /\ ~state.scenes[j].video_generated
        /\ j \notin DOMAIN state.assets.videos

\* What the status says of the rest of state s.
TerminalStatusMeans(s) ==
    /\ s.status = "completed" =>
           /\ s.assets.final_video # None
           /\ \E i \in SceneIds(s) :
                  s.scenes[i].video_generated /\ s.scenes[i].video_path # None
           /\ s.error_message = None
    /\ s.status = "failed" => s.error_message # None

\* C35: in every state of the session, in memory and in the store, COMPLETED comes
\* with a final video, at least one scene with a recorded video and no error
\* message, and FAILED comes with an error message.
C35_TerminalStatusMeans ==
    /\ TerminalStatusMeans(state)
    /\ disk.exists => TerminalStatusMeans(disk.content)

\* A run of execute_full_production, under way or ended.
InFullRun == op = "full" \/ outcome.op = "full"
\* The stage whose tasks are ts has drained with no success.
DrainedWithoutSuccess(ts) == ts # <<>> /\ AllResolved(ts) /\ Successful(ts) = 0
StatusIn(statuses) ==
    /\ state.status \in statuses
    /\ disk.exists => disk.content.status \in statuses
    /\ saving # NoSnapshot => saving.status \in statuses

\* C36: in a run of execute_full_production, once the image stage has drained with
\* no success there is no video task, no video gateway call and no call of the
\* concatenation tool, and the status, in memory, in any save under way and in the
\* store, is GENERATING_IMAGES or FAILED; once the video stage has drained with no
\* success the concatenation tool has not been called and the status is
\* GENERATING_VIDEOS or FAILED.
C36_FatalStageStopsDownstream ==
    /\ (InFullRun /\ DrainedWithoutSuccess(tasks.image)) =>
           /\ tasks.video = <<>>
           /\ VideoCalls = {}
           /\ concat_input = <<>>
           /\ pc \in {"img_gather", "fail_save", "idle"}
           /\ StatusIn({"generating_images", "failed"})
    /\ (InFullRun /\ DrainedWithoutSuccess(tasks.video)) =>
           /\ concat_input = <<>>
           /\ pc \in {"vid_gather", "fail_save", "idle"}
           /\ StatusIn({"generating_videos", "failed"})

\* C36 witness: execute_full_production has raised after an image stage of several
\* scenes in which every task failed; no video task was created and the failure is
\* in the store.
C36_Witness ==
    /\ Raised("full")
    /\ Len(state.scenes) >= 2
    /\ DrainedWithoutSuccess(tasks.image)
    /\ outcome.error = NoImagesError
    /\ tasks.video = <<>>
    /\ disk.content.status = "failed"

\* The concatenation tool has reported failure to this run of
\* execute_full_production.
ConcatenationFailed ==
    InFullRun /\ concat_input # <<>> /\ state.error_message = <<"Concatenation failed">>

\* C37: in a run of execute_full_production, a step in which the concatenation
\* tool's answer does not start the save of COMPLETED marks the state FAILED with
\* the tool's failure as error message; and from then on final_video is unset, the
\* status is FAILED in memory and not COMPLETED in the store, only the except
\* branch's save is left to run, and the run ends by raising.
C37_ConcatFailureFailsTheRun ==
    /\ (op = "full" /\ pc = "cat_tool") =>
           /\ state.assets.final_video = None
           /\ state.status = "concatenating"
           /\ state.error_message = None
    /\ ConcatenationFailed =>
           /\ state.assets.final_video = None
           /\ Failed
           /\ pc \in {"fail_save", "idle"}
           /\ pc = "fail_save" => saving = state
           /\ pc = "idle" => Raised("full")
           /\ disk.exists /\ disk.content.status \in {"concatenating", "failed"}
           /\ disk.content.assets.final_video = None
    /\ (InFullRun /\ state.status = "completed") =>
           /\ state.assets.final_video # None
           /\ state.error_message = None

\* C37 witness: the tool reported failure, the state was marked FAILED, and the
\* except branch's own save raised: the run has ended raising with the state
\* FAILED in memory and CONCATENATING in the store.
C37_Witness ==
    /\ Raised("full")
    /\ ConcatenationFailed
    /\ ~outcome.persisted
    /\ outcome.error = "save_state failed"
    /\ state.status = "failed"
    /\ disk.content.status = "concatenating"

\* How a run of execute_full_production may have ended.
EndedProperly ==
    \/ outcome.kind = "returned" /\ state.status = "completed"
    \/ outcome.kind = "raised" /\ Failed

\* C38: under a fair event loop in which every gateway call, concatenation call
\* and save returns, every run of execute_full_production that has been entered
\* eventually ends, and whenever it has ended it has returned with the status
\* COMPLETED or raised with the status FAILED and an error message.
C38_Termination ==
    /\ [](Finished("full") => EndedProperly)
    /\ (op = "full") ~> (Finished("full") /\ EndedProperly)

\* C38 witness: a run of three scenes has returned COMPLETED although an image
\* task failed and a save raised on the way.
C38_Witness ==
    /\ Finished("full")
    /\ outcome.kind = "returned"
    /\ state.status = "completed"
    /\ Len(state.scenes) = 3
    /\ FailedTasks(tasks.image) # {}
    /\ save_failures = 1

InFlightCalls == {k \in DOMAIN batch.jobs : batch.jobs[k] = "running"}
Batches == (batch.total + batch.batch_size - 1) \div batch.batch_size

ToolResult == tool.result[1]

\* C40: no exception leaves a tool handler; a handler that has ended has returned
\* a dictionary with a boolean success: true with the payload (the scene's image
\* or video path, the final video's path, the saved session's id with the file
\* written, the stored state's JSON), false with an error text; and
\* load_state_tool for a session without a state file has returned success false.
C40_ToolsReportErrorsAsValues ==
    /\ tool.phase # "raised"
    /\ tool.phase \in {"running", "returned"} => tool.raised = None
    /\ tool.phase = "returned" =>
           /\ tool.result # None
           /\ ToolResult.success \in BOOLEAN
           /\ ~ToolResult.success =>
                  /\ "error" \in DOMAIN ToolResult
                  /\ DOMAIN ToolResult \subseteq {"success", "error", "scene_id"}
           /\ ToolResult.success =>
                  /\ "error" \notin DOMAIN ToolResult
                  /\ tool.pending = None
                  /\ tool.name = "generate_image" =>
                         ToolResult.image_path = get_image_path(tool.input)
                  /\ tool.name = "generate_video" =>
                         ToolResult.video_path = get_video_path(tool.input)
                  /\ tool.name = "concatenate_videos" =>
                         ToolResult.final_video_path = get_final_video_path
                  /\ tool.name = "save_state" =>
                         /\ ToolResult.session_id \in SessionIds
                         /\ store.files[ToolResult.session_id] = tool.input
                  /\ tool.name = "load_state" =>
                         ToolResult.state = store.files[tool.input]
           /\ (tool.name = "load_state" /\ store.files[tool.input] = NoFile) =>
                  ~ToolResult.success
           /\ (tool.name = "save_state" /\ tool.input \notin
                   {model_dump(s) : s \in UNION {StoreStates(id) : id \in SessionIds}}) =>
                  ~ToolResult.success

\* C40 witness: concatenate_videos_tool has returned success false with ffmpeg's
\* error text, after its "finally" ran, while a state saved through
\* save_state_tool is in the store.
C40_Witness ==
    /\ tool.phase = "returned"
    /\ tool.name = "concatenate_videos"
    /\ tool.pending = <<"ffmpeg error">>
    /\ ToolResult = [success |-> FALSE, error |-> "ffmpeg error"]
    /\ \E id \in SessionIds : store.files[id] # NoFile
====
